---- MODULE Spec2Model ----
(***************************************************************************)
(* Lifecycle coordination of the octo-sts distros: the Readiness Gate      *)
(* (configwait.ReadyGate), the Reload Coordinator (configwait.Reloader),   *)
(* the bounded-retry Config Waiter (configwait.Wait) and the long-running  *)
(* HTTP adapter that wires them together (cmd/http-app/main.go).           *)
(*                                                                         *)
(* The specifications share the variables:                                 *)
(*   SpecGate      a ReadyGate driven by arbitrary client calls            *)
(*                 (SetReady, SetHandler, concurrent ServeHTTP)            *)
(*   SpecReloader  a Reloader with the test suite's reload function,       *)
(*                 started once, driven by Trigger calls, SIGHUP and       *)
(*                 cancellation; FairSpecReloader adds the scheduler's     *)
(*                 fairness, SpecReloaderMulti further Start calls         *)
(*   Spec          the http-app process: gate + mux + webhook wrapper,     *)
(*                 loadConfig run by the Wait task and by the Reloader     *)
(*   SpecWait      configwait.Wait on the tests' load function             *)
(*   SpecWaitAny   SpecWait from the entry of Wait, for any cfg.MaxRetries *)
(*   SpecRetry     SpecWait followed by ResolveEnvironmentWithRetry        *)
(*   SpecSetup     Spec with the installer on and no credentials at start  *)
(*   SpecGlobal    SpecReloader driven through the global TriggerReload    *)
(*   SpecLambda    the handlers of the Lambda mains                        *)
(*   SpecResolver  ssmresolver: ResolveValue and ResolveEnvironment        *)
(*   SpecLambdaConc the handler of unnamed/part_014, one task per request   *)
(*   SpecInstaller the installer Handler: handleCallback, handleDisable     *)
(*   SpecHeaders   the headers of the neutral Request, built by the         *)
(*                 long-running and the single-invocation adapter          *)
(***************************************************************************)
EXTENDS Integers, Sequences, FiniteSets, TLC

\* ------------------------------------------------------------------ bounds

\* concurrent ServeHTTP calls in flight
NumReq == 1
\* SetReady calls a client of the gate makes
MaxSetReady == 2
\* SetHandler calls a client of the gate makes
MaxSetHandler == 2
\* Start calls a client of the Reloader makes at most (main makes one)
MaxListeners == 2
\* Trigger calls made while the history is recorded
MaxTriggers == 3
\* SIGHUP signals delivered while the history is recorded
MaxSighups == 1
\* cfg.MaxRetries (CONFIG_WAIT_MAX_RETRIES, any n > 0)
MaxRetries == 2
\* versions of the credentials the installer saves
MaxVersion == 2
\* cfg.MaxRetries of a Wait call driven by the tests' load function
MaxWaitRetries == 4
\* environment variables of a process that calls the resolver
MaxEnv == 3
\* header fields of a native request
MaxHeaders == 2
\* requests the single-invocation adapter handles at the same time
NumInvocations == 2

\* ------------------------------------------------------------- strings

\* Paths are sequences of characters, so that strings.HasPrefix is a real
\* prefix test.
Root == <<"/">>
Setup == <<"/", "s", "e", "t", "u", "p">>
SetupCallback == Setup \o <<"/", "c", "a", "l", "l", "b", "a", "c", "k">>
Callback == <<"/", "c", "a", "l", "l", "b", "a", "c", "k">>
Healthz == <<"/", "h", "e", "a", "l", "t", "h", "z">>
Webhook == <<"/", "w", "e", "b", "h", "o", "o", "k">>

\* the request paths the model sends
ReqPaths == {Root, Setup, SetupCallback, Healthz, Webhook}

NotReadyMsg == "service not ready, configuration loading"
StartingMsg == "service starting up"

\* ------------------------------------------------------------- handlers

\* The nil http.Handler / the empty atomic.Value.
NoHandler == "nil"
\* Two handlers of the test suite (http.HandlerFunc values) and the
\* *http.ServeMux that main installs.
Handlers == {"inner1", "inner2", "mux"}

\* The dynamic (concrete) type of a handler value; atomic.Value remembers the
\* type of the first value stored.
TypeOf(h) == IF h = "mux" THEN "*http.ServeMux" ELSE "http.HandlerFunc"

VARIABLES
    \* ReadyGate
    ready,          \* rg.ready (atomic.Bool)
    handler,        \* rg.handler (atomic.Value), NoHandler when nothing stored
    inner,          \* rg.inner, set by NewReadyGate and never written again
    handlerReady,   \* TRUE once the channel rg.handlerReady is closed
    allowedPaths,   \* rg.allowedPaths
    crashed,        \* TRUE once a goroutine panicked (the process is gone)
    \* history of the gate's clients
    setReadyCalls,  \* number of SetReady calls made so far
    setHandlerCalls,\* number of SetHandler calls made so far
    \* ServeHTTP calls in flight
    req,
    \* webhookHandler of cmd/http-app
    webhook,        \* h.handler (atomic.Pointer): 0 is nil, v > 0 the app built from config v
    \* Reloader
    reloadFunc,     \* r.reloadFunc: "testReloadFunc" or "loadConfig"
    reloading,      \* r.reloading, guarded by r.mu
    mu,             \* r.mu: the listener that holds it, 0 when it is unlocked
    reloadCh,       \* number of values buffered in r.reloadCh (capacity 1)
    sighupCh,       \* per listener: values buffered in its sighupCh (capacity 1)
    ctxDone,        \* r.ctx is cancelled
    gpc,            \* per goroutine (listener l >= 1, initial-load goroutine 0): where it stands
    lres,           \* per listener: what its reloadFunc call returned
    startBudget,    \* Start calls the client still makes
    done,           \* per listener: the channel its Start call returned is closed
    \* history of the Reloader (recorded while observe is TRUE)
    observe,
    trigCalls,      \* Trigger calls made
    sighups,        \* SIGHUP signals delivered
    execStarts,     \* executions of reloadFunc started
    execDone,       \* executions of reloadFunc that returned
    markAt,         \* execStarts when the tracked Trigger call was made, -1 if none
    disturbed,      \* another trigger, signal or cancellation followed the tracked call
    cancelledAt,    \* where Wait stood when the context was cancelled: its position
                    \* and attempt, <<"call", 1>> if before the call, <<>> if never
    pendingTrig,    \* a Trigger call was made and no execution has started since
    burstDone,      \* execDone when the BurstSize-th Trigger call was made, -1 before
    \* the http-app process
    installerEnabled, \* configstore.InstallerEnabled()
    cfgVersion,     \* version of the credentials last saved (the store, the
                    \* .env file), 0 when none
    envVersion,     \* version of the credentials in the process environment
                    \* (os.Getenv), 0 while the variables are empty
    built,          \* per goroutine: the config version its loadConfig call built the app from
    attempt,        \* Wait's loop variable
    procExit,       \* os.Exit(1) was called
    \* the call of configwait.Wait
    loadFunc,       \* its load argument: "loadConfig" (main) or "testLoadFunc"
    cfgMaxRetries,  \* cfg.MaxRetries
    succeedAt,      \* the call at which the tests' load function first returns nil
    callCount,      \* callCount of the tests' load function
    lastErr,        \* Wait's lastErr: the attempt whose error it holds, 0 for nil
    waitErr,        \* what Wait returned: "none" while it runs, then "nil",
                    \* "lastErr" or "ctx.Err"
    \* a Lambda function instance (cmd/lambda-webhook, cmd/lambda-sts)
    lam,            \* its package variables and the invocation in progress
    \* the package-level reloader of configwait
    globalReloader, \* "nil", or "r" for the Reloader of this model
    globalCalls,    \* TriggerReload calls made
    \* ssmresolver
    environ,        \* the process environment: a sequence of [key, value]
    ssmParams,      \* what the SSM client answers for each parameter name
    getParameterCalls, \* the names GetParameter was called with, in order
    rv,             \* the ResolveValue / ResolveEnvironment call in progress
    retry,          \* the ResolveEnvironmentWithRetry call: its position, loop
                    \* variable, lastErr, result and the attempts it made
    \* the transport adapters
    hdr,            \* a native request and the headers of the neutral Request
                    \* built from it
    inv,            \* the handler invocations of a Lambda function that run
                    \* at the same time
    \* the installer
    ins             \* the credential store as the installer sees it, and the
                    \* installer request in progress

gateVars == <<ready, handler, inner, handlerReady, allowedPaths, crashed,
              setReadyCalls, setHandlerCalls>>
reloaderVars == <<reloadFunc, reloading, mu, reloadCh, sighupCh, ctxDone, gpc, lres,
                  startBudget, done>>
historyVars == <<observe, trigCalls, sighups, execStarts, execDone, markAt, disturbed, cancelledAt,
                 pendingTrig, burstDone>>
waitVars == <<loadFunc, cfgMaxRetries, succeedAt, callCount, lastErr, waitErr>>
resolverVars == <<environ, ssmParams, getParameterCalls, rv, retry>>
adapterVars == <<hdr, inv, ins>>
pkgVars == <<globalReloader, globalCalls, resolverVars, adapterVars>>
progVars == <<installerEnabled, cfgVersion, envVersion, built, attempt, procExit, waitVars, lam, pkgVars>>
restVars == <<reloaderVars, historyVars, progVars>>
vars == <<gateVars, req, webhook, restVars>>

Reqs == 1..NumReq

IdleReq == [pc |-> "idle", path |-> <<>>, h |-> NoHandler, seen |-> {},
            startReady |-> FALSE, endReady |-> FALSE,
            resp |-> [status |-> 0, by |-> "none", body |-> "", retryAfter |-> FALSE]]

\* ---------------------------------------------------------------- ReadyGate

\* strings.HasPrefix(s, prefix)
HasPrefix(s, prefix) ==
    /\ Len(prefix) <= Len(s)
    /\ SubSeq(s, 1, Len(prefix)) = prefix

\* ReadyGate.isAllowedPath: the loop over rg.allowedPaths from index i on.
RECURSIVE isAllowedFrom(_, _, _)
isAllowedFrom(allowed, path, i) ==
    IF i > Len(allowed) THEN FALSE
    ELSE IF allowed[i] = Root
         THEN IF path = Root THEN TRUE ELSE isAllowedFrom(allowed, path, i + 1)
         ELSE IF HasPrefix(path, allowed[i]) THEN TRUE
              ELSE isAllowedFrom(allowed, path, i + 1)

\* Faulty variant: every entry is matched exactly, none as a prefix.
isAllowedPath_Exact(allowed, path) == \E i \in 1..Len(allowed) : allowed[i] = path

isAllowedPath(allowed, path) == isAllowedFrom(allowed, path, 1)

\* The process runs: no goroutine panicked and os.Exit was not called.
Alive == ~crashed /\ ~procExit

\* ReadyGate.serveUnavailable: 503, Content-Type JSON, Retry-After: 5,
\* {"error":"service_unavailable","message":message}
serveUnavailable(message) ==
    [status |-> 503, by |-> "gate", body |-> message, retryAfter |-> TRUE]

\* ReadyGate.getHandler: the value last stored, or nil.
getHandler == handler

\* NewReadyGate(inner, allowedPaths)
NewReadyGate(in, allowed) ==
    /\ inner = in
    /\ allowedPaths = allowed
    /\ handlerReady = FALSE
    /\ ready = FALSE
    /\ handler = in      \* rg.handler.Store(inner) only when inner != nil
    /\ crashed = FALSE
    /\ setReadyCalls = 0
    /\ setHandlerCalls = 0

\* Faulty variant: SetReady flips the flag instead of setting it.
SetReadyStore_Toggle == ~ready

\* ReadyGate.SetReady: rg.ready.Store(true)
SetReadyStore == TRUE

SetReady ==
    /\ Alive
    /\ setReadyCalls < MaxSetReady
    /\ ready' = SetReadyStore
    /\ setReadyCalls' = setReadyCalls + 1
    /\ UNCHANGED <<handler, inner, handlerReady, allowedPaths, crashed,
                   setHandlerCalls, req, webhook, restVars>>

\* ReadyGate.IsReady
IsReady == ready

\* atomic.Value.Store panics when the concrete type of the value differs from
\* the type of the first value stored.
StorePanics(h) == handler # NoHandler /\ TypeOf(handler) # TypeOf(h)

\* ReadyGate.SetHandler(h): rg.handler.Store(h), then close rg.handlerReady
\* under rg.mu unless it is closed already.
SetHandler(h) ==
    /\ Alive
    /\ setHandlerCalls < MaxSetHandler
    /\ setHandlerCalls' = setHandlerCalls + 1
    /\ IF StorePanics(h)
       THEN /\ crashed' = TRUE
            /\ UNCHANGED <<handler, handlerReady, req>>
       ELSE /\ handler' = h
            /\ handlerReady' = TRUE
            /\ crashed' = FALSE
            /\ req' = [r \in Reqs |->
                         IF req[r].pc \in {"checkReady", "getHandler"}
                         THEN [req[r] EXCEPT !.seen = @ \cup {h}]
                         ELSE req[r]]
    /\ UNCHANGED <<ready, inner, allowedPaths, setReadyCalls, webhook, restVars>>

\* Faulty variant: the liveness handler answers 200 "ok" whatever the gate says.
HealthzResponse_AlwaysOk ==
    [status |-> 200, by |-> "mux", body |-> "ok", retryAfter |-> FALSE]

\* The /healthz handler of main: 200 "ok" when gate.IsReady(), else 503
\* "not ready".
HealthzResponse ==
    IF IsReady
    THEN [status |-> 200, by |-> "mux", body |-> "ok", retryAfter |-> FALSE]
    ELSE [status |-> 503, by |-> "mux", body |-> "not ready", retryAfter |-> FALSE]

\* What the handler h writes for a request to path, in the current state.
\*   test handlers: 200 "ok"               (configwait_test.go)
\*   mux /healthz : 200 "ok" when the gate is ready, else 503 "not ready"
\*   mux /webhook : webhookHandler.ServeHTTP
\*   mux, others  : the installer when it is enabled ("/" is registered), else 404
HandlerResponse(h, path) ==
    IF h # "mux"
    THEN [status |-> 200, by |-> h, body |-> "ok", retryAfter |-> FALSE]
    ELSE IF path = Healthz
         THEN HealthzResponse
         ELSE IF path = Webhook
              THEN IF webhook = 0
                   THEN [status |-> 503, by |-> "mux", body |-> "service not configured",
                         retryAfter |-> FALSE]
                   ELSE [status |-> 200, by |-> "mux", body |-> "app", retryAfter |-> FALSE]
              ELSE IF installerEnabled
                   THEN [status |-> 200, by |-> "mux", body |-> "installer",
                         retryAfter |-> FALSE]
                   ELSE [status |-> 404, by |-> "mux", body |-> "404 page not found",
                         retryAfter |-> FALSE]

\* ReadyGate.ServeHTTP, entry: the call starts and isAllowedPath is evaluated.
ServeHTTPBegin(r, path) ==
    /\ Alive
    /\ req[r].pc = "idle"
    /\ req' = [req EXCEPT ![r] =
                 [IdleReq EXCEPT !.pc = IF isAllowedPath(allowedPaths, path)
                                        THEN "getHandler" ELSE "checkReady",
                                 !.path = path,
                                 !.seen = {handler},
                                 !.startReady = (setReadyCalls > 0)]]
    /\ UNCHANGED <<gateVars, webhook, restVars>>

\* Faulty variant: the readiness flag is not consulted.
ServeHTTPCheckReady_Skip(r) ==
    /\ Alive
    /\ req[r].pc = "checkReady"
    /\ req' = [req EXCEPT ![r].pc = "getHandler"]
    /\ UNCHANGED <<gateVars, webhook, restVars>>

\* ReadyGate.ServeHTTP, `if !rg.ready.Load()` on a path that is not allowed.
ServeHTTPCheckReady(r) ==
    /\ Alive
    /\ req[r].pc = "checkReady"
    /\ IF ~ready
       THEN req' = [req EXCEPT ![r].pc = "done",
                               ![r].resp = serveUnavailable(NotReadyMsg),
                               ![r].endReady = (setReadyCalls > 0)]
       ELSE req' = [req EXCEPT ![r].pc = "getHandler"]
    /\ UNCHANGED <<gateVars, webhook, restVars>>

\* Faulty variant: without a handler the gate answers 404.
ServeHTTPGetHandler_NotFound(r) ==
    /\ Alive
    /\ req[r].pc = "getHandler"
    /\ IF getHandler = NoHandler
       THEN req' = [req EXCEPT ![r].pc = "done",
                               ![r].resp = [status |-> 404, by |-> "gate",
                                            body |-> "not found", retryAfter |-> FALSE],
                               ![r].endReady = (setReadyCalls > 0)]
       ELSE req' = [req EXCEPT ![r].pc = "dispatch", ![r].h = getHandler]
    /\ UNCHANGED <<gateVars, webhook, restVars>>

\* ReadyGate.ServeHTTP, `h := rg.getHandler()` and the nil test after it.
ServeHTTPGetHandler(r) ==
    /\ Alive
    /\ req[r].pc = "getHandler"
    /\ IF getHandler = NoHandler
       THEN req' = [req EXCEPT ![r].pc = "done",
                               ![r].resp = serveUnavailable(StartingMsg),
                               ![r].endReady = (setReadyCalls > 0)]
       ELSE req' = [req EXCEPT ![r].pc = "dispatch", ![r].h = getHandler]
    /\ UNCHANGED <<gateVars, webhook, restVars>>

\* ReadyGate.ServeHTTP, `h.ServeHTTP(w, r)`.
ServeHTTPDispatch(r) ==
    /\ Alive
    /\ req[r].pc = "dispatch"
    /\ req' = [req EXCEPT ![r].pc = "done",
                          ![r].resp = HandlerResponse(req[r].h, req[r].path),
                          ![r].endReady = (setReadyCalls > 0)]
    /\ UNCHANGED <<gateVars, webhook, restVars>>

\* ReadyGate.ServeHTTP run from entry to return with the gate as it is now:
\* what a request to path is answered.
ServeHTTPResult(path) ==
    IF ~isAllowedPath(allowedPaths, path) /\ ~ready
    THEN serveUnavailable(NotReadyMsg)
    ELSE IF getHandler = NoHandler
         THEN serveUnavailable(StartingMsg)
         ELSE HandlerResponse(getHandler, path)

\* The call has returned; the slot serves the next request.
ServeHTTPReturn(r) ==
    /\ Alive
    /\ req[r].pc = "done"
    /\ req' = [req EXCEPT ![r] = IdleReq]
    /\ UNCHANGED <<gateVars, webhook, restVars>>

ServeHTTP(r) ==
    \/ \E path \in ReqPaths : ServeHTTPBegin(r, path)
    \/ ServeHTTPCheckReady(r)
    \/ ServeHTTPGetHandler(r)
    \/ ServeHTTPDispatch(r)
    \/ ServeHTTPReturn(r)

\* ----------------------------------------------------------------- Reloader

Listeners == 1..MaxListeners
\* The goroutine of main that runs configwait.Wait
WaitTask == 0
Tasks == {WaitTask} \cup Listeners

\* Faulty variant: a trigger queue of two slots.
ReloadChCap_Two == 1 + 1

\* make(chan struct{}, 1)
ReloadChCap == 1

\* TestReloader_MultipleTriggers calls Trigger three times.
BurstSize == 3

\* NewReloader(ctx, gate, reloadFunc); the client goes on to call Start
\* `budget` times.
NewReloader(fn, budget) ==
    /\ reloadFunc = fn
    /\ reloading = FALSE
    /\ mu = 0
    /\ reloadCh = 0
    /\ sighupCh = [l \in Listeners |-> 0]
    /\ ctxDone = FALSE
    /\ gpc = [t \in Tasks |-> "none"]
    /\ lres = [l \in Listeners |-> "none"]
    /\ startBudget = budget
    /\ done = [l \in Listeners |-> FALSE]

\* The state of the process outside the gate and the Reloader, with nothing
\* loaded.
NewProcess(inst, ver) ==
    /\ installerEnabled = inst
    /\ cfgVersion = ver
    /\ envVersion = ver
    /\ built = [t \in Tasks |-> 0]
    /\ procExit = FALSE
    /\ lam = [prog |-> "none"]

\* No resolver call is in progress.
IdleCall ==
    [fn |-> "none", pc |-> "idle", arg |-> <<>>, snapshot |-> <<>>, i |-> 0,
     out |-> <<>>, err |-> "nil"]

\* ResolveEnvironmentWithRetry was not called.
NoRetry == [pc |-> "none", attempt |-> 0, lastErr |-> 0, err |-> "none", calls |-> 0]

\* A map[string]string with no entries.
EmptyMap == [k \in {} |-> ""]

\* No native request is being converted.
NoRequest ==
    [adapter |-> "none", pc |-> "idle", wire |-> <<>>, Header |-> EmptyMap,
     event |-> EmptyMap, todo |-> {}, headers |-> EmptyMap]

\* events.APIGatewayV2HTTPResponse{}: nothing was returned yet.
NoResp == [status |-> 0, by |-> "none", body |-> "", retryAfter |-> FALSE, version |-> 0]

\* No handler invocation is in progress.
Invocations == 1..NumInvocations
IdleInvocation == [pc |-> "idle", path |-> <<>>, afterSuccess |-> FALSE, resp |-> NoResp]
NoInvocations == [i \in Invocations |-> IdleInvocation]

\* The installer before its first request, on an empty store: Status reports
\* neither Registered nor InstallerDisabled.
NoInstaller ==
    [pc |-> "idle", handler |-> "none", registered |-> FALSE, disabled |-> FALSE,
     exchanged |-> "none", saved |-> "none", triggered |-> FALSE,
     reported |-> "none", disableCalled |-> FALSE, disabledBefore |-> FALSE,
     status |-> 0]

\* A process that does not use the resolver.
NoResolver ==
    /\ environ = <<>>
    /\ ssmParams = <<>>
    /\ getParameterCalls = <<>>
    /\ rv = IdleCall
    /\ retry = NoRetry

\* The package variable globalReloader after SetGlobalReloader(r); no
\* TriggerReload call was made yet, and no request is being converted.
NewGlobalReloader(r) ==
    /\ globalReloader = r
    /\ globalCalls = 0
    /\ NoResolver
    /\ hdr = NoRequest
    /\ inv = NoInvocations
    /\ ins = NoInstaller

\* Wait(ctx, cfg, load) is entered: `for attempt := 1; ...`. The tests' load
\* function fails until its k-th call.
NewWait(fn, max, k) ==
    /\ loadFunc = fn
    /\ cfgMaxRetries = max
    /\ succeedAt = k
    /\ callCount = 0
    /\ attempt = 1
    /\ lastErr = 0
    /\ waitErr = "none"

\* The history starts empty.
NewHistory(on) ==
    /\ observe = on
    /\ trigCalls = 0
    /\ sighups = 0
    /\ execStarts = 0
    /\ execDone = 0
    /\ markAt = -1
    /\ disturbed = FALSE
    /\ cancelledAt = IF on /\ ctxDone THEN <<"call", 1>> ELSE <<>>
    /\ pendingTrig = FALSE
    /\ burstDone = -1

\* signal.Notify(sighupCh, SIGHUP) is in effect for listener l.
Registered(l) == gpc[l] \notin {"none", "exited"}

\* A reloadFunc call is executing on listener l.
Executing(l) == gpc[l] \in {"reloadFunc", "lc_build", "lc_setHandler", "lc_setReady"}

\* Reloader.Start: signal.Notify and the listener goroutine.
Start(l) ==
    /\ Alive
    /\ startBudget > 0
    /\ gpc[l] = "none"
    /\ \A k \in 1..(l - 1) : gpc[k] # "none"
    /\ gpc' = [gpc EXCEPT ![l] = "select"]
    /\ sighupCh' = [sighupCh EXCEPT ![l] = 0]
    /\ startBudget' = startBudget - 1
    /\ done' = [done EXCEPT ![l] = FALSE]
    /\ UNCHANGED <<gateVars, req, webhook, progVars, reloadFunc, reloading, mu, reloadCh, ctxDone, lres,
                   historyVars>>

\* Faulty variant: a plain send `r.reloadCh <- struct{}{}`, which waits while
\* the channel is full.
TriggerSend_Blocking ==
    reloadCh < ReloadChCap /\ reloadCh' = reloadCh + 1

\* Faulty variant: a trigger made while a reload is in progress is dropped.
TriggerSend_NoopWhileReloading ==
    reloadCh' = IF reloading \/ reloadCh >= ReloadChCap THEN reloadCh ELSE reloadCh + 1

\* Faulty variant: r.reloadCh is unbuffered, so the send succeeds only when a
\* listener waits in its select.
TriggerSend_Unbuffered ==
    reloadCh' = IF \E l \in Listeners : gpc[l] = "select" THEN 1 ELSE reloadCh

\* Reloader.Trigger: `select { case r.reloadCh <- struct{}{}: default: }`
TriggerSend ==
    reloadCh' = IF reloadCh < ReloadChCap THEN reloadCh + 1 ELSE reloadCh

\* The tracked Trigger call: made while a reload executes, with nothing queued.
Qualifies ==
    /\ \E l \in Listeners : Executing(l)
    /\ reloadCh = 0
    /\ \A l \in Listeners : sighupCh[l] = 0

Disturb == disturbed' = (disturbed \/ markAt # -1)

\* What the history records when Trigger is called.
RecordTrigger ==
    /\ trigCalls' = trigCalls + 1
    /\ pendingTrig' = TRUE
    /\ markAt' = IF markAt = -1 /\ Qualifies THEN execStarts ELSE markAt
    /\ disturbed' = IF markAt # -1 THEN TRUE
                    ELSE IF Qualifies THEN ctxDone ELSE disturbed
    /\ burstDone' = IF trigCalls + 1 = BurstSize THEN execDone ELSE burstDone
    /\ UNCHANGED <<observe, sighups, execStarts, execDone, cancelledAt>>

Trigger ==
    /\ Alive
    /\ observe
    /\ trigCalls < MaxTriggers
    /\ TriggerSend
    /\ RecordTrigger
    /\ UNCHANGED <<gateVars, req, webhook, progVars, reloadFunc, reloading, mu, sighupCh, ctxDone, gpc,
                   lres, startBudget, done>>

\* SetGlobalReloader(r): globalReloader = r under globalReloaderMu.
SetGlobalReloader(r) ==
    /\ Alive
    /\ globalReloader # r
    /\ globalReloader' = r
    /\ UNCHANGED <<gateVars, req, webhook, reloaderVars, historyVars, installerEnabled,
                   cfgVersion, envVersion, built, attempt, procExit, waitVars, lam, globalCalls,
                   resolverVars, adapterVars>>

\* TriggerReload as the installer calls it: `if r != nil { r.Trigger() }`
TriggerReloadSend ==
    IF globalReloader # "nil" THEN TriggerSend ELSE UNCHANGED reloadCh

\* Faulty variant: r.Trigger() is called without the nil test; on the nil
\* *Reloader it reads r.ctx and panics.
TriggerReload_NoNilCheck ==
    /\ Alive
    /\ observe
    /\ trigCalls < MaxTriggers
    /\ globalCalls < MaxTriggers
    /\ globalCalls' = globalCalls + 1
    /\ IF globalReloader # "nil"
       THEN TriggerSend /\ RecordTrigger /\ UNCHANGED gateVars
       ELSE /\ crashed' = TRUE
            /\ UNCHANGED <<ready, handler, inner, handlerReady, allowedPaths, setReadyCalls,
                           setHandlerCalls, reloadCh, historyVars>>
    /\ UNCHANGED <<req, webhook, reloadFunc, reloading, mu, sighupCh, ctxDone, gpc,
                   lres, startBudget, done, installerEnabled, cfgVersion, envVersion, built, attempt,
                   procExit, waitVars, lam, globalReloader, resolverVars, adapterVars>>

\* TriggerReload(): reads globalReloader under the read lock and calls
\* Trigger on it unless it is nil.
TriggerReload ==
    /\ Alive
    /\ observe
    /\ trigCalls < MaxTriggers
    /\ globalCalls < MaxTriggers
    /\ globalCalls' = globalCalls + 1
    /\ IF globalReloader # "nil"
       THEN TriggerSend /\ RecordTrigger
       ELSE UNCHANGED <<reloadCh, historyVars>>
    /\ UNCHANGED <<gateVars, req, webhook, reloadFunc, reloading, mu, sighupCh, ctxDone, gpc,
                   lres, startBudget, done, installerEnabled, cfgVersion, envVersion, built, attempt,
                   procExit, waitVars, lam, globalReloader, resolverVars, adapterVars>>

\* The OS delivers SIGHUP: the runtime sends on every registered channel
\* without blocking (a full channel drops the signal).
Sighup ==
    /\ Alive
    /\ \E l \in Listeners : Registered(l)
    /\ observe => sighups < MaxSighups
    /\ sighupCh' = [l \in Listeners |-> IF Registered(l) THEN 1 ELSE sighupCh[l]]
    /\ sighups' = IF observe THEN sighups + 1 ELSE sighups
    /\ Disturb
    /\ UNCHANGED <<gateVars, req, webhook, progVars, reloadFunc, reloading, mu, reloadCh, ctxDone, gpc,
                   lres, startBudget, done, observe, trigCalls, execStarts, execDone, markAt,
                   cancelledAt, pendingTrig, burstDone>>

\* The context given to NewReloader and to Wait is cancelled.
Cancel ==
    /\ Alive
    /\ ~ctxDone
    /\ ctxDone' = TRUE
    /\ Disturb
    /\ cancelledAt' = IF observe THEN <<gpc[WaitTask], attempt>> ELSE cancelledAt
    /\ UNCHANGED <<gateVars, req, webhook, progVars, reloadFunc, reloading, mu, reloadCh, sighupCh, gpc,
                   lres, startBudget, done, observe, trigCalls, sighups, execStarts, execDone,
                   markAt, pendingTrig, burstDone>>

\* Faulty variant: the goroutine returns without closing done.
ListenerCtxDone_NoClose(l) ==
    /\ Alive
    /\ gpc[l] = "select"
    /\ ctxDone
    /\ gpc' = [gpc EXCEPT ![l] = "exited"]
    /\ UNCHANGED <<gateVars, req, webhook, progVars, reloadFunc, reloading, mu, reloadCh, sighupCh,
                   ctxDone, lres, startBudget, done, historyVars>>

\* The listener's select, case <-r.ctx.Done(): return; the deferred calls
\* signal.Stop(sighupCh) and close(done) run.
ListenerCtxDone(l) ==
    /\ Alive
    /\ gpc[l] = "select"
    /\ ctxDone
    /\ gpc' = [gpc EXCEPT ![l] = "exited"]
    /\ done' = [done EXCEPT ![l] = TRUE]
    /\ UNCHANGED <<gateVars, req, webhook, progVars, reloadFunc, reloading, mu, reloadCh, sighupCh,
                   ctxDone, lres, startBudget, historyVars>>

\* The listener's select, case <-sighupCh: r.doReload()
ListenerSighup(l) ==
    /\ Alive
    /\ gpc[l] = "select"
    /\ sighupCh[l] > 0
    /\ sighupCh' = [sighupCh EXCEPT ![l] = 0]
    /\ gpc' = [gpc EXCEPT ![l] = "doReload"]
    /\ UNCHANGED <<gateVars, req, webhook, progVars, reloadFunc, reloading, mu, reloadCh, ctxDone, lres,
                   startBudget, done, historyVars>>

\* The listener's select, case <-r.reloadCh: r.doReload()
ListenerReloadCh(l) ==
    /\ Alive
    /\ gpc[l] = "select"
    /\ reloadCh > 0
    /\ reloadCh' = reloadCh - 1
    /\ gpc' = [gpc EXCEPT ![l] = "doReload"]
    /\ UNCHANGED <<gateVars, req, webhook, progVars, reloadFunc, reloading, mu, sighupCh, ctxDone, lres,
                   startBudget, done, historyVars>>

\* r.mu.Lock() ... r.mu.Unlock() around statements that cannot block: the
\* section is one step, entered when the mutex is unlocked and left with it
\* unlocked.
LockedSection == mu = 0 /\ mu' = 0

\* The first statement of r.reloadFunc.
ReloadFuncEntry == IF reloadFunc = "loadConfig" THEN "lc_build" ELSE "reloadFunc"

\* What the history records when an execution of reloadFunc starts.
RecordStart ==
    /\ execStarts' = IF observe THEN execStarts + 1 ELSE execStarts
    /\ pendingTrig' = FALSE
    /\ UNCHANGED <<observe, trigCalls, sighups, execDone, markAt, disturbed, cancelledAt, burstDone>>

\* Faulty variant: r.reloading is set without being tested.
DoReloadLock_NoCheck(l) ==
    /\ Alive
    /\ gpc[l] = "doReload"
    /\ LockedSection
    /\ reloading' = TRUE
    /\ gpc' = [gpc EXCEPT ![l] = ReloadFuncEntry]
    /\ RecordStart
    /\ UNCHANGED <<gateVars, req, webhook, progVars, reloadFunc, reloadCh, sighupCh, ctxDone, lres,
                   startBudget, done>>

\* Faulty variant: `defer r.mu.Unlock()` right after Lock, so that the mutex
\* stays locked while reloadFunc runs.
DoReloadLock_HoldsLock(l) ==
    /\ Alive
    /\ gpc[l] = "doReload"
    /\ mu = 0
    /\ IF reloading
       THEN /\ gpc' = [gpc EXCEPT ![l] = "select"]
            /\ UNCHANGED <<reloading, mu, historyVars>>
       ELSE /\ reloading' = TRUE
            /\ mu' = l
            /\ gpc' = [gpc EXCEPT ![l] = ReloadFuncEntry]
            /\ RecordStart
    /\ UNCHANGED <<gateVars, req, webhook, progVars, reloadFunc, reloadCh, sighupCh, ctxDone, lres,
                   startBudget, done>>

\* Reloader.doReload up to the call of reloadFunc: under r.mu, return when
\* r.reloading is set, else set it.
DoReloadLock(l) ==
    /\ Alive
    /\ gpc[l] = "doReload"
    /\ LockedSection
    /\ IF reloading
       THEN /\ gpc' = [gpc EXCEPT ![l] = "select"]
            /\ UNCHANGED <<reloading, historyVars>>
       ELSE /\ reloading' = TRUE
            /\ gpc' = [gpc EXCEPT ![l] = ReloadFuncEntry]
            /\ RecordStart
    /\ UNCHANGED <<gateVars, req, webhook, progVars, reloadFunc, reloadCh, sighupCh, ctxDone, lres,
                   startBudget, done>>

\* The reload function of the tests: counts, takes its time, and returns nil
\* (TestReloader_Trigger) or an error (TestReloader_ReloadError).
TestReloadFunc(l) ==
    /\ Alive
    /\ gpc[l] = "reloadFunc"
    /\ \E res \in {"ok", "err"} : lres' = [lres EXCEPT ![l] = res]
    /\ gpc' = [gpc EXCEPT ![l] = "deferred"]
    /\ execDone' = IF observe THEN execDone + 1 ELSE execDone
    /\ UNCHANGED <<gateVars, req, webhook, progVars, reloadFunc, reloading, mu, reloadCh, sighupCh,
                   ctxDone, startBudget, done, observe, trigCalls, sighups, execStarts, markAt,
                   disturbed, cancelledAt, pendingTrig, burstDone>>

\* Faulty variant: a reload that failed ends the process.
DoReloadDeferred_FatalOnError(l) ==
    /\ Alive
    /\ gpc[l] = "deferred"
    /\ LockedSection
    /\ reloading' = FALSE
    /\ lres' = [lres EXCEPT ![l] = "none"]
    /\ gpc' = [gpc EXCEPT ![l] = "select"]
    /\ procExit' = (lres[l] = "err")
    /\ UNCHANGED <<gateVars, req, webhook, installerEnabled, lam, pkgVars, cfgVersion, envVersion, built, attempt,
                   waitVars, reloadFunc, reloadCh, sighupCh, ctxDone, startBudget, done,
                   historyVars>>

\* Reloader.doReload after reloadFunc returned: the result is logged and the
\* deferred function clears r.reloading under r.mu.
DoReloadDeferred(l) ==
    /\ Alive
    /\ gpc[l] = "deferred"
    /\ LockedSection
    /\ reloading' = FALSE
    /\ lres' = [lres EXCEPT ![l] = "none"]
    /\ gpc' = [gpc EXCEPT ![l] = "select"]
    /\ UNCHANGED <<gateVars, req, webhook, progVars, reloadFunc, reloadCh, sighupCh, ctxDone,
                   startBudget, done, historyVars>>

\* The listener goroutine l: its select loop and doReload.
ListenerLoop(l) ==
    \/ ListenerCtxDone(l)
    \/ ListenerSighup(l)
    \/ ListenerReloadCh(l)
    \/ DoReloadLock(l)
    \/ DoReloadDeferred(l)

\* One step of the listener goroutine l of a Reloader built on the tests'
\* reload function.
Listener(l) ==
    \/ ListenerLoop(l)
    \/ TestReloadFunc(l)

\* ------------------------------------------------------ cmd/http-app: main

\* Faulty variant: the loop gives up one attempt early
\* (`attempt < cfg.MaxRetries` as the loop condition).
ReturnTo_OneAttemptShort(t, res) ==
    IF t = WaitTask
    THEN /\ gpc' = [gpc EXCEPT ![t] = IF res = "ok" THEN "w_done"
                                      ELSE IF attempt + 1 < cfgMaxRetries THEN "w_sleep"
                                      ELSE "w_failed"]
         /\ lastErr' = IF res = "err" THEN attempt ELSE lastErr
         /\ waitErr' = IF res = "ok" THEN "nil"
                       ELSE IF attempt + 1 < cfgMaxRetries THEN waitErr
                       ELSE "lastErr"
         /\ procExit' = (loadFunc = "loadConfig" /\ res = "err"
                                                 /\ attempt + 1 >= cfgMaxRetries)
         /\ UNCHANGED <<lres, execDone>>
    ELSE /\ gpc' = [gpc EXCEPT ![t] = "deferred"]
         /\ lres' = [lres EXCEPT ![t] = res]
         /\ execDone' = IF observe THEN execDone + 1 ELSE execDone
         /\ UNCHANGED <<procExit, lastErr, waitErr>>

\* Faulty variant: lastErr keeps the first error instead of the last.
ReturnTo_FirstErr(t, res) ==
    IF t = WaitTask
    THEN /\ gpc' = [gpc EXCEPT ![t] = IF res = "ok" THEN "w_done"
                                      ELSE IF attempt < cfgMaxRetries THEN "w_sleep"
                                      ELSE "w_failed"]
         /\ lastErr' = IF res = "err" /\ lastErr = 0 THEN attempt ELSE lastErr
         /\ waitErr' = IF res = "ok" THEN "nil"
                       ELSE IF attempt < cfgMaxRetries THEN waitErr
                       ELSE "lastErr"
         /\ procExit' = (loadFunc = "loadConfig" /\ res = "err"
                                                 /\ attempt >= cfgMaxRetries)
         /\ UNCHANGED <<lres, execDone>>
    ELSE /\ gpc' = [gpc EXCEPT ![t] = "deferred"]
         /\ lres' = [lres EXCEPT ![t] = res]
         /\ execDone' = IF observe THEN execDone + 1 ELSE execDone
         /\ UNCHANGED <<procExit, lastErr, waitErr>>

\* A reloadFunc / load call of goroutine t returns res: to doReload on a
\* listener, to Wait on the initial-load goroutine. Wait sleeps when attempts
\* are left; otherwise it returns the last error and main calls os.Exit(1).
ReturnTo(t, res) ==
    IF t = WaitTask
    THEN /\ gpc' = [gpc EXCEPT ![t] = IF res = "ok" THEN "w_done"
                                      ELSE IF attempt < cfgMaxRetries THEN "w_sleep"
                                      ELSE "w_failed"]
         /\ lastErr' = IF res = "err" THEN attempt ELSE lastErr
         /\ waitErr' = IF res = "ok" THEN "nil"
                       ELSE IF attempt < cfgMaxRetries THEN waitErr
                       ELSE "lastErr"
         /\ procExit' = (loadFunc = "loadConfig" /\ res = "err"
                                                 /\ attempt >= cfgMaxRetries)
         /\ UNCHANGED <<lres, execDone>>
    ELSE /\ gpc' = [gpc EXCEPT ![t] = "deferred"]
         /\ lres' = [lres EXCEPT ![t] = res]
         /\ execDone' = IF observe THEN execDone + 1 ELSE execDone
         /\ UNCHANGED <<procExit, lastErr, waitErr>>

\* Faulty variant: a failed load empties the webhook wrapper.
LoadFailed_TearDown(t) ==
    /\ ReturnTo(t, "err")
    /\ webhook' = 0
    /\ UNCHANGED <<built, ready>>

\* Faulty variant: a failed load marks the gate not ready.
LoadFailed_Unready(t) ==
    /\ ReturnTo(t, "err")
    /\ ready' = FALSE
    /\ UNCHANGED <<built, webhook>>

\* loadConfig returns an error (`return fmt.Errorf(...)`): nothing was
\* installed and nothing is taken down.
LoadFailed(t) ==
    /\ ReturnTo(t, "err")
    /\ UNCHANGED <<built, webhook, ready>>

\* shared.LoadEnvFile, called by SetupEnvMapping: a variable of the file is
\* set only `if value != "" && os.Getenv(key) == ""`. The result is the
\* version the environment holds afterwards.
LoadEnvFile ==
    IF envVersion = 0 THEN cfgVersion ELSE envVersion

\* loadConfig up to app.New: SetupEnvMapping loads the .env file into the
\* environment, the configuration is read from the environment (envconfig)
\* and the app is built; any of BaseConfig, WebhookConfig, ghtransport.New and
\* app.New may fail, and they do fail without credentials.
LoadConfigBuild(t) ==
    /\ Alive
    /\ gpc[t] = "lc_build"
    /\ envVersion' = LoadEnvFile
    /\ \E ok \in BOOLEAN :
        /\ ok => LoadEnvFile > 0
        /\ IF ok
           THEN /\ built' = [built EXCEPT ![t] = LoadEnvFile]
                /\ gpc' = [gpc EXCEPT ![t] = "lc_setHandler"]
                /\ UNCHANGED <<lres, execDone, procExit, lastErr, waitErr, webhook, ready>>
           ELSE LoadFailed(t)
    /\ UNCHANGED <<handler, inner, handlerReady, allowedPaths, crashed, setReadyCalls,
                   setHandlerCalls, req, installerEnabled, lam, pkgVars, cfgVersion, attempt,
                   loadFunc, cfgMaxRetries, succeedAt, callCount,
                   reloadFunc, reloading, mu, reloadCh, sighupCh, ctxDone, startBudget, done,
                   observe, trigCalls, sighups, execStarts, markAt, disturbed, cancelledAt, pendingTrig,
                   burstDone>>

\* Faulty variant: the new app is not stored in the wrapper.
LoadConfigSetHandler_Skip(t) ==
    /\ Alive
    /\ gpc[t] = "lc_setHandler"
    /\ gpc' = [gpc EXCEPT ![t] = "lc_setReady"]
    /\ UNCHANGED <<gateVars, req, webhook, progVars, reloadFunc, reloading, mu, reloadCh,
                   sighupCh, ctxDone, lres, startBudget, done, historyVars>>

\* Faulty variant: gate.SetReady() is called where webhook.SetHandler
\* belongs, before the new app is stored in the wrapper.
LoadConfigSetHandler_ReadyFirst(t) ==
    /\ Alive
    /\ gpc[t] = "lc_setHandler"
    /\ ready' = SetReadyStore
    /\ gpc' = [gpc EXCEPT ![t] = "lc_setReady"]
    /\ UNCHANGED <<handler, inner, handlerReady, allowedPaths, crashed, setReadyCalls,
                   setHandlerCalls, req, webhook, progVars, reloadFunc, reloading, mu, reloadCh,
                   sighupCh, ctxDone, lres, startBudget, done, historyVars>>

\* loadConfig: webhook.SetHandler(appInstance), an atomic pointer store.
LoadConfigSetHandler(t) ==
    /\ Alive
    /\ gpc[t] = "lc_setHandler"
    /\ webhook' = built[t]
    /\ gpc' = [gpc EXCEPT ![t] = "lc_setReady"]
    /\ UNCHANGED <<gateVars, req, progVars, reloadFunc, reloading, mu, reloadCh, sighupCh,
                   ctxDone, lres, startBudget, done, historyVars>>

\* loadConfig: gate.SetReady() and `return nil`.
LoadConfigSetReady(t) ==
    /\ Alive
    /\ gpc[t] = "lc_setReady"
    /\ ready' = SetReadyStore
    /\ setReadyCalls' = IF setReadyCalls < MaxSetReady THEN setReadyCalls + 1
                        ELSE setReadyCalls
    /\ ReturnTo(t, "ok")
    /\ UNCHANGED <<handler, inner, handlerReady, allowedPaths, crashed, setHandlerCalls,
                   req, webhook, installerEnabled, lam, pkgVars, cfgVersion, envVersion, built, attempt,
                   loadFunc, cfgMaxRetries, succeedAt, callCount,
                   reloadFunc, reloading, mu, reloadCh, sighupCh, ctxDone, startBudget, done,
                   observe, trigCalls, sighups, execStarts, markAt, disturbed, cancelledAt, pendingTrig,
                   burstDone>>

LoadConfig(t) ==
    \/ LoadConfigBuild(t)
    \/ LoadConfigSetHandler(t)
    \/ LoadConfigSetReady(t)

\* The first statement of Wait's load argument.
LoadFuncEntry == IF loadFunc = "loadConfig" THEN "lc_build" ELSE "load"

\* The load function of the tests (TestWait_RetryThenSuccess,
\* TestWait_MaxRetriesExceeded): counts its calls and fails until the
\* succeedAt-th.
TestLoadFunc ==
    /\ Alive
    /\ gpc[WaitTask] = "load"
    /\ callCount' = callCount + 1
    /\ ReturnTo(WaitTask, IF callCount + 1 < succeedAt THEN "err" ELSE "ok")
    /\ UNCHANGED <<gateVars, req, webhook, installerEnabled, lam, pkgVars, cfgVersion, envVersion, built, attempt,
                   loadFunc, cfgMaxRetries, succeedAt,
                   reloadFunc, reloading, mu, reloadCh, sighupCh, ctxDone, startBudget, done,
                   observe, trigCalls, sighups, execStarts, markAt, disturbed, cancelledAt, pendingTrig,
                   burstDone>>

\* Faulty variant: the cancellation only leaves the select (`break`), and the
\* loop goes on to the next attempt.
WaitSleepCancelled_Continues ==
    /\ Alive
    /\ gpc[WaitTask] = "w_sleep"
    /\ ctxDone
    /\ attempt' = attempt + 1
    /\ gpc' = [gpc EXCEPT ![WaitTask] = IF loadFunc = "loadConfig" THEN "lc_build" ELSE "load"]
    /\ UNCHANGED <<gateVars, req, webhook, installerEnabled, lam, pkgVars, cfgVersion, envVersion, built, procExit,
                   waitVars, reloadFunc, reloading, mu, reloadCh, sighupCh, ctxDone, lres,
                   startBudget, done, historyVars>>

\* Wait after a failed attempt that was not the last: the select on
\* ctx.Done() and a timer of cfg.RetryInterval (positive: NewConfigFromEnv)
\* that starts with the select.
\*   case <-ctx.Done(): return ctx.Err(), and main calls os.Exit(1)
WaitSleepCancelled ==
    /\ Alive
    /\ gpc[WaitTask] = "w_sleep"
    /\ ctxDone
    /\ gpc' = [gpc EXCEPT ![WaitTask] = "w_failed"]
    /\ waitErr' = "ctx.Err"
    /\ procExit' = (loadFunc = "loadConfig")
    /\ UNCHANGED <<gateVars, req, webhook, installerEnabled, lam, pkgVars, cfgVersion, envVersion, built, attempt,
                   loadFunc, cfgMaxRetries, succeedAt, callCount, lastErr,
                   reloadFunc, reloading, mu, reloadCh, sighupCh, ctxDone, lres, startBudget, done,
                   historyVars>>

\*   case <-time.After(cfg.RetryInterval): the timer fires before the
\*   context is cancelled, and the next attempt starts
WaitSleepElapsed ==
    /\ Alive
    /\ gpc[WaitTask] = "w_sleep"
    /\ ~ctxDone
    /\ attempt' = attempt + 1
    /\ gpc' = [gpc EXCEPT ![WaitTask] = LoadFuncEntry]
    /\ UNCHANGED <<gateVars, req, webhook, installerEnabled, lam, pkgVars, cfgVersion, envVersion, built, procExit,
                   loadFunc, cfgMaxRetries, succeedAt, callCount, lastErr, waitErr,
                   reloadFunc, reloading, mu, reloadCh, sighupCh, ctxDone, lres, startBudget, done,
                   historyVars>>

\* Faulty variant: the credentials are saved and no reload is triggered.
InstallerCallback_NoTrigger ==
    /\ Alive
    /\ installerEnabled
    /\ cfgVersion < MaxVersion
    /\ cfgVersion' = cfgVersion + 1
    /\ UNCHANGED <<gateVars, req, webhook, installerEnabled, envVersion, lam, pkgVars, built, attempt, procExit,
                   waitVars, reloaderVars, historyVars>>

\* installer.handleCallback: the credentials are saved to the store and
\* configwait.TriggerReload() calls Trigger on the global reloader.
InstallerCallback ==
    /\ Alive
    /\ installerEnabled
    /\ cfgVersion < MaxVersion
    /\ cfgVersion' = cfgVersion + 1
    /\ TriggerReloadSend
    /\ UNCHANGED <<gateVars, req, webhook, installerEnabled, envVersion, lam, pkgVars, built, attempt, procExit,
                   waitVars,
                   reloadFunc, reloading, mu, sighupCh, ctxDone, gpc, lres, startBudget, done,
                   historyVars>>

\* ------------------------------------- unnamed/part_007: the installer Handler

\* What the handlers of the installer leave alone.
InstallerUnchanged ==
    UNCHANGED <<gateVars, req, webhook, installerEnabled, envVersion, built, attempt,
                procExit, waitVars, lam, globalReloader, resolverVars, hdr, inv,
                reloadFunc, reloading, mu, sighupCh, ctxDone, gpc, lres, startBudget, done>>

\* A request is routed to one of the handlers; what the previous request
\* left in `ins` is forgotten, the store is kept.
BeginRequest(name, next) ==
    [NoInstaller EXCEPT !.pc = next, !.handler = name,
                        !.registered = ins.registered, !.disabled = ins.disabled,
                        !.disabledBefore = ins.disabled]

\* http.Error(w, ..., code), or the last statement of a handler: the answer
\* is written and the handler returns.
Respond(i, code) == [i EXCEPT !.pc = "idle", !.status = code]

\* handleCallback is entered: `code := r.URL.Query().Get("code")`; without a
\* code it answers 400.
HandleCallbackBegin(hasCode) ==
    /\ Alive
    /\ installerEnabled
    /\ ins.pc = "idle"
    /\ cfgVersion < MaxVersion
    /\ ins' = IF hasCode THEN BeginRequest("handleCallback", "exchangeCode")
              ELSE Respond(BeginRequest("handleCallback", "idle"), 400)
    /\ UNCHANGED <<cfgVersion, globalCalls, reloadCh, historyVars>>
    /\ InstallerUnchanged

\* `creds, err := h.exchangeCode(ctx, code)`: GitHub converts the code or
\* refuses it; on an error the handler answers 500.
ExchangeCode(ok) ==
    /\ Alive
    /\ ins.pc = "exchangeCode"
    /\ ins' = IF ok THEN [ins EXCEPT !.pc = "Save", !.exchanged = "ok"]
              ELSE Respond([ins EXCEPT !.exchanged = "err"], 500)
    /\ UNCHANGED <<cfgVersion, globalCalls, reloadCh, historyVars>>
    /\ InstallerUnchanged

\* Faulty variant: the error of Store.Save is logged and the handler goes on.
CallbackSave_IgnoresError(ok, partly) ==
    /\ Alive
    /\ ins.pc = "Save"
    /\ cfgVersion' = IF ok THEN cfgVersion + 1 ELSE cfgVersion
    /\ ins' = [ins EXCEPT !.pc = "TriggerReload",
                          !.saved = IF ok THEN "ok" ELSE "err",
                          !.registered = (ok \/ partly \/ ins.registered)]
    /\ UNCHANGED <<globalCalls, reloadCh, historyVars>>
    /\ InstallerUnchanged

\* `if err := h.config.Store.Save(ctx, creds); err != nil`: on an error the
\* handler answers 500. LocalFileStore.Save writes one file per field and
\* stops at the first that fails, so a failed Save may leave the files that
\* Status requires (`partly`).
CallbackSave(ok, partly) ==
    /\ Alive
    /\ ins.pc = "Save"
    /\ cfgVersion' = IF ok THEN cfgVersion + 1 ELSE cfgVersion
    /\ ins' = IF ok THEN [ins EXCEPT !.pc = "TriggerReload", !.saved = "ok",
                                     !.registered = TRUE]
              ELSE Respond([ins EXCEPT !.saved = "err",
                                       !.registered = (partly \/ ins.registered)], 500)
    /\ UNCHANGED <<globalCalls, reloadCh, historyVars>>
    /\ InstallerUnchanged

\* `configwait.TriggerReload()` in handleCallback.
CallbackTriggerReload ==
    /\ Alive
    /\ ins.pc = "TriggerReload"
    /\ globalCalls' = globalCalls + 1
    /\ IF globalReloader # "nil"
       THEN TriggerSend /\ RecordTrigger
       ELSE UNCHANGED <<reloadCh, historyVars>>
    /\ ins' = [ins EXCEPT !.pc = "renderSuccess", !.triggered = TRUE]
    /\ UNCHANGED cfgVersion
    /\ InstallerUnchanged

\* `h.renderSuccess(w, r, data)`: the success page.
RenderSuccess ==
    /\ Alive
    /\ ins.pc = "renderSuccess"
    /\ ins' = Respond(ins, 200)
    /\ UNCHANGED <<cfgVersion, globalCalls, reloadCh, historyVars>>
    /\ InstallerUnchanged

HandleCallback ==
    \/ \E hasCode \in BOOLEAN : HandleCallbackBegin(hasCode)
    \/ \E ok \in BOOLEAN : ExchangeCode(ok)
    \/ \E ok, partly \in BOOLEAN : CallbackSave(ok, partly)
    \/ CallbackTriggerReload
    \/ RenderSuccess

\* handleDisable is entered.
HandleDisableBegin ==
    /\ Alive
    /\ installerEnabled
    /\ ins.pc = "idle"
    /\ ins' = BeginRequest("handleDisable", "Status")
    /\ UNCHANGED <<cfgVersion, globalCalls, reloadCh, historyVars>>
    /\ InstallerUnchanged

\* Faulty variant: the Registered field of the status is not looked at.
DisableStatus_NoRegisteredCheck(ok) ==
    /\ Alive
    /\ ins.pc = "Status"
    /\ ins' = IF ~ok THEN Respond([ins EXCEPT !.reported = "err"], 500)
              ELSE [ins EXCEPT !.pc = "DisableInstaller",
                               !.reported = IF ins.registered THEN "registered"
                                            ELSE "unregistered"]
    /\ UNCHANGED <<cfgVersion, globalCalls, reloadCh, historyVars>>
    /\ InstallerUnchanged

\* `status, err := h.config.Store.Status(ctx)`: an error answers 500, a
\* status that is nil or not Registered answers 400.
DisableStatus(ok) ==
    /\ Alive
    /\ ins.pc = "Status"
    /\ ins' = IF ~ok THEN Respond([ins EXCEPT !.reported = "err"], 500)
              ELSE IF ~ins.registered
                   THEN Respond([ins EXCEPT !.reported = "unregistered"], 400)
                   ELSE [ins EXCEPT !.pc = "DisableInstaller", !.reported = "registered"]
    /\ UNCHANGED <<cfgVersion, globalCalls, reloadCh, historyVars>>
    /\ InstallerUnchanged

\* `if err := h.config.Store.DisableInstaller(ctx); err != nil`: an error
\* answers 500, else the request is redirected to /healthz with 303.
\* LocalFileStore.DisableInstaller creates the marker file before it writes
\* to it, so a failed call may leave the marker (`partly`).
DisableInstaller(ok, partly) ==
    /\ Alive
    /\ ins.pc = "DisableInstaller"
    /\ ins' = IF ok THEN Respond([ins EXCEPT !.disableCalled = TRUE, !.disabled = TRUE], 303)
              ELSE Respond([ins EXCEPT !.disableCalled = TRUE,
                                       !.disabled = (partly \/ ins.disabled)], 500)
    /\ UNCHANGED <<cfgVersion, globalCalls, reloadCh, historyVars>>
    /\ InstallerUnchanged

HandleDisable ==
    \/ HandleDisableBegin
    \/ \E ok \in BOOLEAN : DisableStatus(ok)
    \/ \E ok, partly \in BOOLEAN : DisableInstaller(ok, partly)

\* ------------------------------------------- cmd/lambda-webhook, cmd/lambda-sts

\* The Lambda mains under src:
\*   "webhook"      cmd/lambda-webhook/main.go (ghappsetup.Runtime)
\*   "webhook_lazy" unnamed/part_014           (tryInitWebhookHandler)
\*   "sts"          cmd/lambda-sts/main.go     (ghappsetup.Runtime)
\*   "sts_init"     unnamed/part_018           (loads in init only)
LambdaProgs == {"webhook", "webhook_lazy", "sts", "sts_init"}
WebhookProgs == {"webhook", "webhook_lazy"}
RuntimeProgs == {"webhook", "sts"}

\* RawPath values: the routes of the handler, the empty path and one more.
Other == <<"/", "x">>
LambdaPaths == ReqPaths \cup {Callback, Other, <<>>}

\* healthzResponse()
healthzResponse ==
    [status |-> 200, by |-> "lambda", body |-> "ok", retryAfter |-> FALSE, version |-> 0]

\* notFoundResponse()
notFoundResponse ==
    [status |-> 404, by |-> "lambda", body |-> "not found", retryAfter |-> FALSE,
     version |-> 0]

\* serviceUnavailableResponse(message): 503 with Retry-After: 5
serviceUnavailableResponse(message) ==
    [status |-> 503, by |-> "lambda", body |-> message, retryAfter |-> TRUE, version |-> 0]

\* installerAdapter.ProxyWithContext(ctx, req)
installerResponse ==
    [status |-> 200, by |-> "installer", body |-> "installer", retryAfter |-> FALSE,
     version |-> 0]

\* A call through the nil installerAdapter: the invocation panics and returns
\* nothing.
nilDereference == [NoResp EXCEPT !.by = "panic"]

\* handleWebhook / stsInstance.HandleRequest: the response of the instance
\* built from the credentials of version v.
instanceResponse(v) ==
    [status |-> 200, by |-> "instance", body |-> "handled", retryAfter |-> FALSE,
     version |-> v]

\* The package variables when init() has returned and the function serves.
\*   adapter    installerAdapter != nil
\*   store      configStore != nil
\*   instance   appInstance / stsInstance: 0 is nil, v > 0 built from version v
\*   loaded     runtime.IsReady() / isConfigured
\*   disabled   the installer status in the store says InstallerDisabled
\* and the invocation: pc, path, resp, panicked, with
\*   hadInstance the instance as the invocation started
\*   attempted   the invocation called the load function
\*   loadOk      and that call returned nil
\* A main that calls os.Exit(1) in init() never serves: part_014 exits when the
\* installer is enabled and its store or handler cannot be created, part_014
\* and part_018 when the installer is disabled and the first load fails.
LambdaAfterInit(prog, adapter, store, disabled) ==
    /\ adapter => (installerEnabled /\ store)
    /\ store => installerEnabled
    /\ disabled => store
    /\ prog = "webhook_lazy" => (adapter = installerEnabled /\ store = installerEnabled)
    /\ prog \notin WebhookProgs => (~adapter /\ ~store)
    /\ \E inst \in {0, cfgVersion} :
        /\ prog \in RuntimeProgs => inst = 0
        /\ (prog \notin RuntimeProgs /\ ~installerEnabled) => inst > 0
        /\ lam = [prog |-> prog, adapter |-> adapter, store |-> store,
                  disabled |-> disabled, instance |-> inst, loaded |-> (inst > 0),
                  pc |-> "idle", path |-> <<>>, resp |-> NoResp, panicked |-> FALSE,
                  hadInstance |-> 0, attempted |-> FALSE, loadOk |-> FALSE]

LambdaUnchanged ==
    UNCHANGED <<gateVars, req, webhook, reloaderVars, historyVars, installerEnabled,
                cfgVersion, envVersion, built, attempt, procExit, waitVars, pkgVars>>

\* The function instance runs: no invocation panicked.
LambdaAlive == lam.prog # "none" /\ ~lam.panicked

\* The setup wizard (this function's installer, or the webhook function's for
\* the STS function) saves credentials to the store.
StoreCredentials ==
    /\ LambdaAlive
    /\ installerEnabled
    /\ cfgVersion < MaxVersion
    /\ cfgVersion' = cfgVersion + 1
    /\ UNCHANGED <<gateVars, req, webhook, reloaderVars, historyVars, installerEnabled,
                   envVersion, built, attempt, procExit, waitVars, lam, pkgVars>>

\* isInstallerDisabled(ctx): false without a store.
isInstallerDisabled == lam.store /\ lam.disabled

\* handler, the routes that need no handler: what the invocation returns.
RouteResponse(path) ==
    IF path = Healthz THEN healthzResponse
    ELSE IF path = Setup \/ HasPrefix(path, Setup \o <<"/">>) \/ path = Callback
    THEN IF ~lam.adapter THEN notFoundResponse ELSE installerResponse
    ELSE IF path = Root \/ path = <<>>
    THEN IF installerEnabled /\ ~lam.loaded /\ ~isInstallerDisabled
         THEN IF lam.adapter THEN installerResponse ELSE nilDereference
         ELSE notFoundResponse
    ELSE notFoundResponse

\* The request goes to the business handler: every request of the STS
\* functions, /webhook and /webhook/... of the webhook functions.
IsBusiness(path) ==
    \/ lam.prog \notin WebhookProgs
    \/ path = Webhook
    \/ HasPrefix(path, Webhook \o <<"/">>)

\* handler is invoked with RawPath = path. The routes that need no handler
\* return at once; part_018 returns the 503 when stsInstance is nil; the
\* others go on to load.
LambdaBegin(path) ==
    /\ LambdaAlive
    /\ lam.pc = "idle"
    /\ LET begun == [lam EXCEPT !.path = path, !.hadInstance = lam.instance,
                              !.attempted = FALSE, !.loadOk = FALSE, !.resp = NoResp]
       IN  IF ~IsBusiness(path)
           THEN IF RouteResponse(path) = nilDereference
                THEN lam' = [begun EXCEPT !.panicked = TRUE]
                ELSE lam' = [begun EXCEPT !.pc = "done", !.resp = RouteResponse(path)]
           ELSE IF lam.prog = "sts_init"
                THEN IF lam.instance = 0
                     THEN lam' = [begun EXCEPT !.pc = "done",
                                    !.resp = serviceUnavailableResponse("not configured")]
                     ELSE lam' = [begun EXCEPT !.pc = "serve"]
                ELSE lam' = [begun EXCEPT !.pc = "ensure"]
    /\ LambdaUnchanged

\* The load function is called on the request path (initWebhookHandler,
\* initSTSHandler after the SSM parameters are resolved): it fails without
\* credentials and may fail with them.
LambdaLoad(ok) ==
    IF ok
    THEN [lam EXCEPT !.instance = cfgVersion, !.loaded = TRUE,
                     !.attempted = TRUE, !.loadOk = TRUE]
    ELSE [lam EXCEPT !.attempted = TRUE]

\* handler before the business call:
\*   runtime.EnsureLoaded(ctx), which calls the LoadFunc unless a call
\*   succeeded before, and the 503 on its error;
\*   part_014: tryInitWebhookHandler when appInstance is nil and the
\*   installer is enabled, then the 503 when appInstance is still nil.
LambdaEnsureLoaded ==
    /\ LambdaAlive
    /\ lam.pc = "ensure"
    /\ \E ok \in BOOLEAN :
        /\ ok => cfgVersion > 0
        /\ LET calls == IF lam.prog \in RuntimeProgs THEN ~lam.loaded
                        ELSE lam.instance = 0 /\ installerEnabled
               after == IF calls THEN LambdaLoad(ok) ELSE lam
               fails == IF lam.prog \in RuntimeProgs THEN calls /\ ~ok
                        ELSE after.instance = 0
           IN  /\ ~calls => ok
               /\ lam' = IF fails
                         THEN [after EXCEPT !.pc = "done",
                                 !.resp = serviceUnavailableResponse("not configured")]
                         ELSE [after EXCEPT !.pc = "serve"]
    /\ LambdaUnchanged

\* handleWebhook / the STS call: appInstance.HandleRequest(ctx, appReq).
LambdaServe ==
    /\ LambdaAlive
    /\ lam.pc = "serve"
    /\ lam' = IF lam.instance = 0
              THEN [lam EXCEPT !.panicked = TRUE]
              ELSE [lam EXCEPT !.pc = "done", !.resp = instanceResponse(lam.instance)]
    /\ LambdaUnchanged

\* The invocation has returned; the instance takes the next event.
LambdaReturn ==
    /\ LambdaAlive
    /\ lam.pc = "done"
    /\ lam' = [lam EXCEPT !.pc = "idle"]
    /\ LambdaUnchanged

\* ------------------------------ unnamed/part_014: handler, several at a time

\* The package variables appInstance and isConfigured are lam.instance and
\* lam.loaded; they are plain variables, read and written without a lock.
ConcUnchanged ==
    UNCHANGED <<gateVars, req, webhook, reloaderVars, historyVars, installerEnabled,
                cfgVersion, envVersion, built, attempt, procExit, waitVars,
                globalReloader, globalCalls, resolverVars, hdr, ins>>

\* tryInitWebhookHandler is executing in invocation i.
Loading(i) == inv[i].pc = "tryInit"

\* handler is entered with RawPath = path; the routes that need no handler
\* return at once.
HandlerBegin(i, path) ==
    /\ LambdaAlive
    /\ inv[i].pc = "idle"
    /\ inv' = [inv EXCEPT ![i] =
                 IF IsBusiness(path)
                 THEN [IdleInvocation EXCEPT !.pc = "ifNil", !.path = path]
                 ELSE [IdleInvocation EXCEPT !.pc = "done", !.path = path,
                                             !.resp = RouteResponse(path)]]
    /\ UNCHANGED lam
    /\ ConcUnchanged

\* `if appInstance == nil && installerEnabled {`
HandlerIfNil(i) ==
    /\ LambdaAlive
    /\ inv[i].pc = "ifNil"
    /\ inv' = [inv EXCEPT ![i].pc = IF lam.instance = 0 /\ installerEnabled
                                    THEN "call" ELSE "ifStillNil"]
    /\ UNCHANGED lam
    /\ ConcUnchanged

\* `tryInitWebhookHandler(ctx)` is called.
HandlerCall(i) ==
    /\ LambdaAlive
    /\ inv[i].pc = "call"
    /\ inv' = [inv EXCEPT ![i].pc = "tryInit", ![i].afterSuccess = lam.loaded]
    /\ UNCHANGED lam
    /\ ConcUnchanged

\* tryInitWebhookHandler returns: with an error when the SSM parameters or
\* the credentials are missing (and possibly when they are there), else
\* after appInstance and isConfigured were set.
TryInitWebhookHandler(i) ==
    /\ LambdaAlive
    /\ Loading(i)
    /\ \E ok \in BOOLEAN :
        /\ ok => cfgVersion > 0
        /\ lam' = IF ok THEN [lam EXCEPT !.instance = cfgVersion, !.loaded = TRUE]
                  ELSE lam
    /\ inv' = [inv EXCEPT ![i].pc = "ifStillNil"]
    /\ ConcUnchanged

\* `if appInstance == nil { return serviceUnavailableResponse(...) }`, else
\* `return handleWebhook(ctx, req)`
HandlerIfStillNil(i) ==
    /\ LambdaAlive
    /\ inv[i].pc = "ifStillNil"
    /\ inv' = [inv EXCEPT ![i].pc = "done",
                 ![i].resp = IF lam.instance = 0
                             THEN serviceUnavailableResponse("not configured")
                             ELSE instanceResponse(lam.instance)]
    /\ UNCHANGED lam
    /\ ConcUnchanged

\* The invocation has returned.
HandlerReturn(i) ==
    /\ LambdaAlive
    /\ inv[i].pc = "done"
    /\ inv' = [inv EXCEPT ![i] = IdleInvocation]
    /\ UNCHANGED lam
    /\ ConcUnchanged

\* One step of handler in invocation i.
Handler(i) ==
    \/ \E path \in LambdaPaths : HandlerBegin(i, path)
    \/ HandlerIfNil(i)
    \/ HandlerCall(i)
    \/ TryInitWebhookHandler(i)
    \/ HandlerIfStillNil(i)
    \/ HandlerReturn(i)

\* init() of part_014 has returned; the function serves one task per inbound
\* request.
InitLambdaConc ==
    /\ NewReadyGate(NoHandler, <<>>)
    /\ req = [r \in Reqs |-> IdleReq]
    /\ webhook = 0
    /\ NewReloader("testReloadFunc", 0)
    /\ NewHistory(FALSE)
    /\ NewWait("testLoadFunc", 1, 1)
    /\ NewGlobalReloader("nil")
    /\ installerEnabled \in BOOLEAN
    /\ cfgVersion \in {0, 1}
    /\ envVersion = cfgVersion
    /\ built = [t \in Tasks |-> 0]
    /\ procExit = FALSE
    /\ \E disabled \in BOOLEAN :
          LambdaAfterInit("webhook_lazy", installerEnabled, installerEnabled, disabled)

NextLambdaConc ==
    \/ StoreCredentials
    \/ \E i \in Invocations : Handler(i)

SpecLambdaConc == InitLambdaConc /\ [][NextLambdaConc]_vars

\* ----------------------------------------------------------- SpecLambda

InitLambda ==
    /\ NewReadyGate(NoHandler, <<>>)
    /\ req = [r \in Reqs |-> IdleReq]
    /\ webhook = 0
    /\ NewReloader("testReloadFunc", 0)
    /\ NewHistory(FALSE)
    /\ NewWait("testLoadFunc", 1, 1)
    /\ NewGlobalReloader("nil")
    /\ installerEnabled \in BOOLEAN
    /\ cfgVersion \in {0, 1}
    /\ envVersion = cfgVersion
    /\ built = [t \in Tasks |-> 0]
    /\ procExit = FALSE
    /\ \E prog \in LambdaProgs, adapter \in BOOLEAN, store \in BOOLEAN,
          disabled \in BOOLEAN : LambdaAfterInit(prog, adapter, store, disabled)

NextLambda ==
    \/ StoreCredentials
    \/ \E path \in LambdaPaths : LambdaBegin(path)
    \/ LambdaEnsureLoaded
    \/ LambdaServe
    \/ LambdaReturn

SpecLambda == InitLambda /\ [][NextLambda]_vars

\* ----------------------------------------------------------- ssmresolver

\* Strings are sequences of characters, so that the pattern is matched
\* character by character.
ArnPrefix == <<"a", "r", "n", ":", "a", "w", "s", ":", "s", "s", "m", ":">>
ParameterSlash == <<":", "p", "a", "r", "a", "m", "e", "t", "e", "r", "/">>
Newline == "\n"

\* The index of the first c in s at or after position from, 0 if none.
IndexByte(s, c, from) ==
    LET idx == {i \in from..Len(s) : s[i] = c}
    IN  IF idx = {} THEN 0 ELSE CHOOSE i \in idx : \A j \in idx : i <= j

\* ssmARNPattern.FindStringSubmatch(value) for the pattern
\*   ^arn:aws:ssm:[^:]+:[^:]+:parameter/(.+)$
\* <<>> when value does not match, else <<value, the group>>. `[^:]+` is a
\* non-empty run without a colon; `.` is any character but the newline and
\* `$` the end of the text.
FindStringSubmatch(value) ==
    LET a == Len(ArnPrefix) + 1
        c1 == IndexByte(value, ":", a)
        c2 == IF c1 = 0 THEN 0 ELSE IndexByte(value, ":", c1 + 1)
        g == c2 + Len(ParameterSlash)
    IN  IF /\ HasPrefix(value, ArnPrefix)
           /\ c1 > a
           /\ c2 > c1 + 1
           /\ g <= Len(value)
           /\ SubSeq(value, c2, g - 1) = ParameterSlash
           /\ \A i \in g..Len(value) : value[i] # Newline
        THEN <<value, SubSeq(value, g, Len(value))>>
        ELSE <<>>

\* IsSSMARN: ssmARNPattern.MatchString(value)
IsSSMARN(value) == Len(FindStringSubmatch(value)) > 0

\* Faulty variant: the group is returned as it stands in the reference.
ExtractParameterName_NoSlash(arn) ==
    LET matches == FindStringSubmatch(arn)
    IN  IF Len(matches) # 2
        THEN [name |-> <<>>, ok |-> FALSE]
        ELSE [name |-> matches[2], ok |-> TRUE]

\* ExtractParameterName(arn): the group, with a leading slash added when it
\* has none; ok is false when `len(matches) != 2`.
ExtractParameterName(arn) ==
    LET matches == FindStringSubmatch(arn)
    IN  IF Len(matches) # 2
        THEN [name |-> <<>>, ok |-> FALSE]
        ELSE [name |-> IF HasPrefix(matches[2], <<"/">>) THEN matches[2]
                       ELSE <<"/">> \o matches[2],
              ok |-> TRUE]

\* What client.GetParameter answers: an error, an output without a value, or
\* an output with a value.
NotFound == [err |-> TRUE, hasValue |-> FALSE, value |-> <<>>]
NoValue == [err |-> FALSE, hasValue |-> FALSE, value |-> <<>>]
Parameter(v) == [err |-> FALSE, hasValue |-> TRUE, value |-> v]

\* r.client.GetParameter(ctx, {Name: name, WithDecryption: true})
GetParameter(name) ==
    IF name \in DOMAIN ssmParams THEN ssmParams[name] ELSE NotFound

\* Faulty variant: every value is looked up, matching the pattern or not.
ResolveValue_AlwaysLookup(value) ==
    LET p == ExtractParameterName(value)
        resp == GetParameter(p.name)
    IN  IF resp.err \/ ~resp.hasValue
        THEN [value |-> <<>>, err |-> "failed to get SSM parameter", called |-> <<p.name>>]
        ELSE [value |-> resp.value, err |-> "nil", called |-> <<p.name>>]

\* Resolver.ResolveValue(ctx, value): the returned string and error, and the
\* names GetParameter was called with.
ResolveValue(value) ==
    IF ~IsSSMARN(value)
    THEN [value |-> value, err |-> "nil", called |-> <<>>]
    ELSE LET p == ExtractParameterName(value)
             resp == GetParameter(p.name)
         IN  IF ~p.ok
             THEN [value |-> <<>>, err |-> "invalid SSM ARN format", called |-> <<>>]
             ELSE IF resp.err
             THEN [value |-> <<>>, err |-> "failed to get SSM parameter",
                   called |-> <<p.name>>]
             ELSE IF ~resp.hasValue
             THEN [value |-> <<>>, err |-> "SSM parameter has no value",
                   called |-> <<p.name>>]
             ELSE [value |-> resp.value, err |-> "nil", called |-> <<p.name>>]

ResolverUnchanged ==
    UNCHANGED <<gateVars, req, webhook, reloaderVars, historyVars, installerEnabled,
                cfgVersion, envVersion, built, attempt, procExit, waitVars, lam,
                globalReloader, globalCalls, ssmParams, retry, adapterVars>>

\* A client calls r.ResolveValue(ctx, value).
ResolveValueCall(value) ==
    /\ rv.pc = "idle"
    /\ LET r == ResolveValue(value)
       IN  /\ rv' = [rv EXCEPT !.fn = "ResolveValue", !.pc = "returned", !.arg = value,
                               !.out = r.value, !.err = r.err]
           /\ getParameterCalls' = getParameterCalls \o r.called
    /\ UNCHANGED environ
    /\ ResolverUnchanged

\* os.Setenv(key, value)
Setenv(key, value) ==
    [i \in 1..Len(environ) |->
        IF environ[i].key = key THEN [key |-> key, value |-> value] ELSE environ[i]]

\* Resolver.ResolveEnvironment is entered: os.Environ() returns a copy of the
\* environment.
ResolveEnvironmentBegin ==
    /\ rv.pc = "idle"
    /\ rv' = [rv EXCEPT !.fn = "ResolveEnvironment", !.pc = "loop",
                        !.snapshot = environ, !.i = 1]
    /\ UNCHANGED <<environ, getParameterCalls>>
    /\ ResolverUnchanged

\* Faulty variant: an entry that cannot be resolved is skipped.
ResolveEnvironmentStep_SkipFailed ==
    /\ rv.pc = "loop"
    /\ IF rv.i > Len(rv.snapshot)
       THEN /\ rv' = [rv EXCEPT !.pc = "returned", !.err = "nil"]
            /\ UNCHANGED <<environ, getParameterCalls>>
       ELSE LET key == rv.snapshot[rv.i].key
                value == rv.snapshot[rv.i].value
                r == ResolveValue(value)
            IN  /\ getParameterCalls' = getParameterCalls \o r.called
                /\ rv' = [rv EXCEPT !.i = rv.i + 1]
                /\ environ' = IF r.err = "nil" THEN Setenv(key, r.value) ELSE environ
    /\ ResolverUnchanged

\* One iteration of `for _, env := range os.Environ()`, or the return nil
\* after the last one.
ResolveEnvironmentStep ==
    /\ rv.pc = "loop"
    /\ IF rv.i > Len(rv.snapshot)
       THEN /\ rv' = [rv EXCEPT !.pc = "returned", !.err = "nil"]
            /\ UNCHANGED <<environ, getParameterCalls>>
       ELSE LET key == rv.snapshot[rv.i].key
                value == rv.snapshot[rv.i].value
                r == ResolveValue(value)
            IN  IF ~IsSSMARN(value)
                THEN /\ rv' = [rv EXCEPT !.i = rv.i + 1]
                     /\ UNCHANGED <<environ, getParameterCalls>>
                ELSE /\ getParameterCalls' = getParameterCalls \o r.called
                     /\ IF r.err # "nil"
                        THEN /\ rv' = [rv EXCEPT !.pc = "returned",
                                                 !.err = "failed to resolve"]
                             /\ UNCHANGED environ
                        ELSE /\ environ' = Setenv(key, r.value)
                             /\ rv' = [rv EXCEPT !.i = rv.i + 1]
    /\ ResolverUnchanged

\* ResolveEnvironmentWithRetry(ctx, cfg), run with the cfg.MaxRetries, the
\* attempt outcomes and the cancellation time of the Wait call that has
\* returned: the c-th call of ResolveEnvironmentWithDefaults fails exactly
\* when the c-th call of Wait's load function did, and ctx.Done() is closed
\* from the position at which Wait's context was cancelled.
RetryUnchanged ==
    UNCHANGED <<gateVars, req, webhook, reloaderVars, historyVars, installerEnabled,
                cfgVersion, envVersion, built, attempt, procExit, waitVars, lam,
                globalReloader, globalCalls, environ, ssmParams, getParameterCalls, rv,
                adapterVars>>

\* ctx.Done() is closed when the call sleeps after its a-th attempt.
CtxDoneInSleep(a) ==
    /\ cancelledAt # <<>>
    /\ cancelledAt[1] \in {"call", "load", "w_sleep"}
    /\ cancelledAt[2] <= a

\* `for attempt := 1; ...`
RetryBegin ==
    /\ waitErr # "none"
    /\ retry.pc = "none"
    /\ retry' = [retry EXCEPT !.pc = "resolve", !.attempt = 1]
    /\ RetryUnchanged

\* Faulty variant: the context is looked at before every attempt.
RetryResolve_ChecksCtxFirst ==
    /\ retry.pc = "resolve"
    /\ retry.attempt <= cfgMaxRetries
    /\ IF cancelledAt # <<>> /\ cancelledAt[1] = "call"
       THEN retry' = [retry EXCEPT !.pc = "returned", !.err = "ctx.Err"]
       ELSE LET ok == ~(retry.calls + 1 < succeedAt)
                r == [retry EXCEPT !.calls = retry.calls + 1]
            IN  retry' =
                   IF ok THEN [r EXCEPT !.pc = "returned", !.err = "nil"]
                   ELSE IF retry.attempt < cfgMaxRetries
                   THEN [r EXCEPT !.pc = "sleep", !.lastErr = retry.attempt]
                   ELSE [r EXCEPT !.pc = "returned", !.lastErr = retry.attempt,
                                  !.err = "lastErr"]
    /\ RetryUnchanged

\* err := ResolveEnvironmentWithDefaults(ctx): nil returns nil; an error is
\* kept in lastErr, followed by the select when attempts are left and by
\* `return lastErr` when the loop ends.
RetryResolve ==
    /\ retry.pc = "resolve"
    /\ retry.attempt <= cfgMaxRetries
    /\ LET ok == ~(retry.calls + 1 < succeedAt)
           r == [retry EXCEPT !.calls = retry.calls + 1]
       IN  retry' =
              IF ok THEN [r EXCEPT !.pc = "returned", !.err = "nil"]
              ELSE IF retry.attempt < cfgMaxRetries
              THEN [r EXCEPT !.pc = "sleep", !.lastErr = retry.attempt]
              ELSE [r EXCEPT !.pc = "returned", !.lastErr = retry.attempt,
                             !.err = "lastErr"]
    /\ RetryUnchanged

\* case <-ctx.Done(): return ctx.Err()
RetrySleepCancelled ==
    /\ retry.pc = "sleep"
    /\ CtxDoneInSleep(retry.attempt)
    /\ retry' = [retry EXCEPT !.pc = "returned", !.err = "ctx.Err"]
    /\ RetryUnchanged

\* case <-time.After(cfg.RetryInterval): the next attempt
RetrySleepElapsed ==
    /\ retry.pc = "sleep"
    /\ ~CtxDoneInSleep(retry.attempt)
    /\ retry' = [retry EXCEPT !.pc = "resolve", !.attempt = retry.attempt + 1]
    /\ RetryUnchanged

\* --------------------------------------------------------- SpecResolver

\* The values of the environment variables and the arguments of ResolveValue:
\* a plain value, references to the parameters /x and /y, and values that
\* start like a reference and do not match the pattern.
Region == <<"r">>
Account == <<"1">>
PlainValue == <<"v">>
ArnX == ArnPrefix \o Region \o <<":">> \o Account \o ParameterSlash \o <<"x">>
ArnSlashX == ArnPrefix \o Region \o <<":">> \o Account \o ParameterSlash \o <<"/", "x">>
ArnY == ArnPrefix \o Region \o <<":">> \o Account \o ParameterSlash \o <<"y">>
ArnNoRegion == ArnPrefix \o <<":">> \o Account \o ParameterSlash \o <<"x">>
ArnNoPath == ArnPrefix \o Region \o <<":">> \o Account \o ParameterSlash
ArnNewline == ArnX \o <<Newline>>
Values == {PlainValue, ArnX, ArnSlashX, ArnY, ArnNoRegion, ArnNoPath, ArnNewline}

ParamX == <<"/", "x">>
ParamY == <<"/", "y">>
SecretValue == <<"s", "1">>
\* What the store may hold for a parameter: a secret, a secret that reads
\* like a reference, no value, or nothing.
Answers == {Parameter(SecretValue), Parameter(ArnY), NoValue, NotFound}

Keys == <<"K1", "K2", "K3", "K4">>

InitResolver ==
    /\ NewReadyGate(NoHandler, <<>>)
    /\ req = [r \in Reqs |-> IdleReq]
    /\ webhook = 0
    /\ NewReloader("testReloadFunc", 0)
    /\ NewHistory(FALSE)
    /\ NewProcess(FALSE, 0)
    /\ NewWait("testLoadFunc", 1, 1)
    /\ globalReloader = "nil"
    /\ globalCalls = 0
    /\ \E n \in 0..MaxEnv : \E vals \in [1..n -> Values] :
           environ = [i \in 1..n |-> [key |-> Keys[i], value |-> vals[i]]]
    /\ \E ax, ay \in Answers : ssmParams = (ParamX :> ax) @@ (ParamY :> ay)
    /\ getParameterCalls = <<>>
    /\ rv = IdleCall
    /\ retry = NoRetry
    /\ hdr = NoRequest
    /\ inv = NoInvocations
    /\ ins = NoInstaller

NextResolver ==
    \/ \E value \in Values : ResolveValueCall(value)
    \/ ResolveEnvironmentBegin
    \/ ResolveEnvironmentStep

SpecResolver == InitResolver /\ [][NextResolver]_vars

\* ------------------------------------------- headers of the neutral Request

\* Header names are sequences of characters, so that strings.ToLower and the
\* canonical form of net/http are real conversions.
UpperCase == <<"A", "B", "X">>
LowerCase == <<"a", "b", "x">>

\* unicode.ToLower / unicode.ToUpper on one character
ToLowerChar(c) ==
    IF \E i \in 1..Len(UpperCase) : UpperCase[i] = c
    THEN LowerCase[CHOOSE i \in 1..Len(UpperCase) : UpperCase[i] = c]
    ELSE c
ToUpperChar(c) ==
    IF \E i \in 1..Len(LowerCase) : LowerCase[i] = c
    THEN UpperCase[CHOOSE i \in 1..Len(LowerCase) : LowerCase[i] = c]
    ELSE c

\* strings.ToLower(s)
ToLower(s) == [i \in 1..Len(s) |-> ToLowerChar(s[i])]

\* textproto.CanonicalMIMEHeaderKey(s), which net/http applies to the name of
\* every header field it reads: the first letter and each letter after a
\* hyphen in upper case, the others in lower case.
CanonicalMIMEHeaderKey(s) ==
    [i \in 1..Len(s) |->
        IF i = 1 \/ s[i - 1] = "-" THEN ToUpperChar(s[i]) ELSE ToLowerChar(s[i])]

\* m[k] = v on a Go map
Put(m, k, v) == [x \in DOMAIN m \cup {k} |-> IF x = k THEN v ELSE m[x]]

\* The http.Header that net/http builds from the header fields of the
\* request, in the order they arrive: the values of a name are appended under
\* its canonical key.
RECURSIVE ReadHeader(_, _)
ReadHeader(wire, n) ==
    IF n = 0 THEN EmptyMap
    ELSE LET h == ReadHeader(wire, n - 1)
             k == CanonicalMIMEHeaderKey(wire[n].key)
         IN  Put(h, k, IF k \in DOMAIN h THEN Append(h[k], wire[n].value)
                       ELSE <<wire[n].value>>)

\* http.Header.Get(k): the first value associated with the key.
Get(h, k) == h[CanonicalMIMEHeaderKey(k)][1]

\* The Headers map[string]string of events.APIGatewayV2HTTPRequest as
\* encoding/json decodes it from the members of the JSON object: a member
\* whose name was seen before replaces the earlier value.
RECURSIVE Unmarshal(_, _)
Unmarshal(wire, n) ==
    IF n = 0 THEN EmptyMap
    ELSE Put(Unmarshal(wire, n - 1), wire[n].key, wire[n].value)

HeaderUnchanged ==
    UNCHANGED <<gateVars, req, webhook, reloaderVars, historyVars, installerEnabled,
                cfgVersion, envVersion, built, attempt, procExit, waitVars, lam,
                globalReloader, globalCalls, resolverVars, inv, ins>>

\* The native request reaches the handler: r.Header of the *http.Request
\* (stsHandler.ServeHTTP), req.Headers of the Lambda event (handler).
ReceiveRequest ==
    /\ hdr.pc = "wire"
    /\ LET h == IF hdr.adapter = "http" THEN ReadHeader(hdr.wire, Len(hdr.wire))
                ELSE EmptyMap
           e == IF hdr.adapter = "lambda" THEN Unmarshal(hdr.wire, Len(hdr.wire))
                ELSE EmptyMap
       IN  hdr' = [hdr EXCEPT !.Header = h, !.event = e,
                              !.todo = DOMAIN h \cup DOMAIN e,
                              !.pc = IF DOMAIN h \cup DOMAIN e = {} THEN "done"
                                     ELSE "range"]
    /\ HeaderUnchanged

\* stsHandler.ServeHTTP, one iteration of
\*   for k := range r.Header { headers[strings.ToLower(k)] = r.Header.Get(k) }
\* The order in which range visits the keys of a map is not specified.
ServeHTTPRangeHeader ==
    /\ hdr.adapter = "http"
    /\ hdr.pc = "range"
    /\ \E k \in hdr.todo :
          hdr' = [hdr EXCEPT !.headers = Put(@, ToLower(k), Get(hdr.Header, k)),
                             !.todo = @ \ {k},
                             !.pc = IF hdr.todo = {k} THEN "done" ELSE "range"]
    /\ HeaderUnchanged

\* shared.NormalizeHeaders, one iteration of
\*   for k, v := range headers { normalized[strings.ToLower(k)] = v }
NormalizeHeaders ==
    /\ hdr.adapter = "lambda"
    /\ hdr.pc = "range"
    /\ \E k \in hdr.todo :
          hdr' = [hdr EXCEPT !.headers = Put(@, ToLower(k), hdr.event[k]),
                             !.todo = @ \ {k},
                             !.pc = IF hdr.todo = {k} THEN "done" ELSE "range"]
    /\ HeaderUnchanged

\* The header names and values the model sends.
HeaderKeys == {<<"X", "-", "A">>, <<"x", "-", "a">>, <<"X", "-", "a">>, <<"X", "-", "B">>}
HeaderValues == {"1", "2"}

\* A native request with up to MaxHeaders header fields has arrived at the
\* long-running adapter or at the single-invocation adapter.
InitHeaders ==
    /\ NewReadyGate(NoHandler, <<>>)
    /\ req = [r \in Reqs |-> IdleReq]
    /\ webhook = 0
    /\ NewReloader("testReloadFunc", 0)
    /\ NewHistory(FALSE)
    /\ NewProcess(FALSE, 0)
    /\ NewWait("testLoadFunc", 1, 1)
    /\ globalReloader = "nil"
    /\ globalCalls = 0
    /\ NoResolver
    /\ inv = NoInvocations
    /\ ins = NoInstaller
    /\ \E a \in {"http", "lambda"}, n \in 0..MaxHeaders :
        \E ks \in [1..n -> HeaderKeys], vs \in [1..n -> HeaderValues] :
           hdr = [NoRequest EXCEPT !.adapter = a, !.pc = "wire",
                     !.wire = [i \in 1..n |-> [key |-> ks[i], value |-> vs[i]]]]

NextHeaders ==
    \/ ReceiveRequest
    \/ ServeHTTPRangeHeader
    \/ NormalizeHeaders

SpecHeaders == InitHeaders /\ [][NextHeaders]_vars

\* ------------------------------------------------------------- SpecGate

\* The allow-lists of the tests and of main (installer off / on).
GateAllowLists == {<<>>, <<Setup, Healthz>>, <<Healthz, Setup, Callback, Root>>}

InitGate ==
    /\ \E in \in {NoHandler, "inner1"}, allowed \in GateAllowLists :
           NewReadyGate(in, allowed)
    /\ req = [r \in Reqs |-> IdleReq]
    /\ webhook = 0
    /\ NewReloader("testReloadFunc", 0)
    /\ NewHistory(FALSE)
    /\ NewProcess(TRUE, 0)
    /\ NewGlobalReloader("nil")
    /\ NewWait("testLoadFunc", 1, 1)

NextGate ==
    \/ SetReady
    \/ \E h \in Handlers : SetHandler(h)
    \/ \E r \in Reqs : ServeHTTP(r)

SpecGate == InitGate /\ [][NextGate]_vars

\* --------------------------------------------------------- SpecReloader

\* TestReloader_*: NewReadyGate(nil, nil), NewReloader(ctx, gate, reloadFunc),
\* then Start; `budget` is the number of Start calls.
InitReloaderWith(budget) ==
    /\ NewReadyGate(NoHandler, <<>>)
    /\ req = [r \in Reqs |-> IdleReq]
    /\ webhook = 0
    /\ NewReloader("testReloadFunc", budget)
    /\ NewHistory(TRUE)
    /\ NewProcess(FALSE, 0)
    /\ NewGlobalReloader("nil")
    /\ NewWait("testLoadFunc", 1, 1)

NextReloader ==
    \/ \E l \in Listeners : Start(l)
    \/ Trigger
    \/ Sighup
    \/ Cancel
    \/ \E l \in Listeners : Listener(l)

\* Start is called once, as main and the tests do.
InitReloader == InitReloaderWith(1)
SpecReloader == InitReloader /\ [][NextReloader]_vars

\* The goroutine scheduler runs every listener that can take a step, and the
\* reload function returns.
FairSpecReloader == SpecReloader /\ \A l \in Listeners : WF_vars(Listener(l))

\* Start is called up to MaxListeners times on the same Reloader.
InitReloaderMulti == InitReloaderWith(MaxListeners)
SpecReloaderMulti == InitReloaderMulti /\ [][NextReloader]_vars

\* ----------------------------------------------------------- SpecGlobal

\* TestGlobalReloader: SetGlobalReloader(nil), then TriggerReload and
\* SetGlobalReloader calls on a Reloader that is started once.
NextGlobal ==
    \/ \E l \in Listeners : Start(l)
    \/ \E r \in {"nil", "r"} : SetGlobalReloader(r)
    \/ TriggerReload
    \/ Sighup
    \/ Cancel
    \/ \E l \in Listeners : Listener(l)

SpecGlobal == InitReloader /\ [][NextGlobal]_vars

\* ------------------------------------------------------------- SpecWait

\* TestWait_*: Wait is called with a context that is cancelled already or may
\* be cancelled later, cfg.MaxRetries attempts and a load function that
\* succeeds at its k-th call (never, when k exceeds what Wait can reach).
InitWait ==
    /\ NewReadyGate(NoHandler, <<>>)
    /\ req = [r \in Reqs |-> IdleReq]
    /\ webhook = 0
    /\ NewProcess(FALSE, 0)
    /\ NewGlobalReloader("nil")
    /\ reloadFunc = "testReloadFunc"
    /\ reloading = FALSE
    /\ mu = 0
    /\ reloadCh = 0
    /\ sighupCh = [l \in Listeners |-> 0]
    /\ ctxDone \in BOOLEAN
    /\ gpc = [t \in Tasks |-> IF t = WaitTask THEN "load" ELSE "none"]
    /\ lres = [l \in Listeners |-> "none"]
    /\ startBudget = 0
    /\ done = [l \in Listeners |-> FALSE]
    /\ NewHistory(TRUE)
    /\ \E max \in 1..MaxWaitRetries, k \in 1..(MaxWaitRetries + 1) :
           NewWait("testLoadFunc", max, k)

NextWait ==
    \/ TestLoadFunc
    \/ WaitSleepCancelled
    \/ WaitSleepElapsed
    \/ Cancel

SpecWait == InitWait /\ [][NextWait]_vars

\* ---------------------------------------------------------- SpecWaitAny

\* Wait is entered: `var lastErr error` and the first test of the loop
\* condition `attempt <= cfg.MaxRetries`. When it is false the loop body never
\* runs and `return lastErr` returns the nil error.
WaitEnter ==
    /\ Alive
    /\ gpc[WaitTask] = "w_enter"
    /\ IF attempt <= cfgMaxRetries
       THEN /\ gpc' = [gpc EXCEPT ![WaitTask] = LoadFuncEntry]
            /\ UNCHANGED waitErr
       ELSE /\ gpc' = [gpc EXCEPT ![WaitTask] = "w_done"]
            /\ waitErr' = IF lastErr = 0 THEN "nil" ELSE "lastErr"
    /\ UNCHANGED <<gateVars, req, webhook, installerEnabled, lam, pkgVars, cfgVersion, envVersion,
                   built, attempt, procExit, loadFunc, cfgMaxRetries, succeedAt, callCount,
                   lastErr, reloadFunc, reloading, mu, reloadCh, sighupCh, ctxDone, lres,
                   startBudget, done, historyVars>>

\* Wait called with any Config a caller can build: cfg.MaxRetries is a plain
\* int field, 0 in the zero Config.
InitWaitAny ==
    /\ NewReadyGate(NoHandler, <<>>)
    /\ req = [r \in Reqs |-> IdleReq]
    /\ webhook = 0
    /\ NewProcess(FALSE, 0)
    /\ NewGlobalReloader("nil")
    /\ reloadFunc = "testReloadFunc"
    /\ reloading = FALSE
    /\ mu = 0
    /\ reloadCh = 0
    /\ sighupCh = [l \in Listeners |-> 0]
    /\ ctxDone \in BOOLEAN
    /\ gpc = [t \in Tasks |-> IF t = WaitTask THEN "w_enter" ELSE "none"]
    /\ lres = [l \in Listeners |-> "none"]
    /\ startBudget = 0
    /\ done = [l \in Listeners |-> FALSE]
    /\ NewHistory(TRUE)
    /\ \E max \in 0..MaxWaitRetries, k \in 1..(MaxWaitRetries + 1) :
           NewWait("testLoadFunc", max, k)

NextWaitAny ==
    \/ WaitEnter
    \/ NextWait

SpecWaitAny == InitWaitAny /\ [][NextWaitAny]_vars

\* -------------------------------------------------------- SpecInstaller

\* The installer Handler on an empty store, in a process whose Reloader is
\* registered as the global reloader (cmd/http-app) or in one that has
\* none; requests are served one after the other.
InitInstaller ==
    /\ NewReadyGate(NoHandler, <<>>)
    /\ req = [r \in Reqs |-> IdleReq]
    /\ webhook = 0
    /\ NewReloader("testReloadFunc", 1)
    /\ NewHistory(TRUE)
    /\ NewProcess(TRUE, 0)
    /\ NewWait("testLoadFunc", 1, 1)
    /\ globalReloader \in {"nil", "r"}
    /\ globalCalls = 0
    /\ NoResolver
    /\ hdr = NoRequest
    /\ inv = NoInvocations
    /\ ins = NoInstaller

NextInstaller ==
    \/ HandleCallback
    \/ HandleDisable
    \/ \E l \in Listeners : Start(l)
    \/ Sighup
    \/ Cancel
    \/ \E l \in Listeners : Listener(l)

SpecInstaller == InitInstaller /\ [][NextInstaller]_vars

\* ------------------------------------------------------------ SpecRetry

\* Wait on the tests' load function, followed by
\* ResolveEnvironmentWithRetry under the same conditions.
NextRetry ==
    \/ NextWait
    \/ RetryBegin
    \/ RetryResolve
    \/ RetrySleepCancelled
    \/ RetrySleepElapsed

SpecRetry == InitWait /\ [][NextRetry]_vars

\* ------------------------------------------------------------------ Spec

\* main of cmd/http-app when its goroutines have been started: the gate
\* serves the mux and is not ready, the webhook wrapper is empty, the
\* Reloader listens, and the initial-load goroutine enters Wait.
Init ==
    /\ \E inst \in BOOLEAN, ver \in {0, 1} :
        /\ NewProcess(inst, ver)
        /\ allowedPaths = IF inst THEN <<Healthz, Setup, Callback, Root>> ELSE <<Healthz>>
    /\ NewGlobalReloader("r")
    /\ NewWait("loadConfig", MaxRetries, 0)
    /\ inner = NoHandler
    /\ handler = "mux"
    /\ handlerReady = TRUE
    /\ ready = FALSE
    /\ crashed = FALSE
    /\ setReadyCalls = 0
    /\ setHandlerCalls = 1
    /\ req = [r \in Reqs |-> IdleReq]
    /\ webhook = 0
    /\ reloadFunc = "loadConfig"
    /\ reloading = FALSE
    /\ mu = 0
    /\ reloadCh = 0
    /\ sighupCh = [l \in Listeners |-> 0]
    /\ ctxDone = FALSE
    /\ gpc = [t \in Tasks |-> IF t = WaitTask THEN "lc_build"
                             ELSE IF t = 1 THEN "select" ELSE "none"]
    /\ lres = [l \in Listeners |-> "none"]
    /\ startBudget = 0
    /\ done = [l \in Listeners |-> FALSE]
    /\ NewHistory(FALSE)

Next ==
    \/ \E t \in Tasks : LoadConfig(t)
    \/ WaitSleepCancelled
    \/ WaitSleepElapsed
    \/ \E l \in Listeners : ListenerLoop(l)
    \/ InstallerCallback
    \/ Sighup
    \/ Cancel
    \/ ServeHTTP(1)

Spec == Init /\ [][Next]_vars

\* ------------------------------------------------------------- SpecSetup

\* The first-run scenario of http-app: the installer is enabled, the process
\* starts with no credentials, and the credentials the installer saves are
\* good ones, so that a load that finds them succeeds.
InitSetup == Init /\ installerEnabled /\ cfgVersion = 0

SavedCredentialsLoad ==
    \A t \in Tasks :
        (gpc[t] = "lc_build" /\ gpc'[t] # gpc[t] /\ cfgVersion > 0)
            => gpc'[t] = "lc_setHandler"

NextSetup == Next /\ SavedCredentialsLoad

SpecSetup == InitSetup /\ [][NextSetup]_vars

\* ------------------------------------------------------- claims on the gate

\* The allow-list rule as the contract words it: an entry "/" matches the path
\* "/" only, any other entry matches every path it is a prefix of.
OnAllowList(path) ==
    \E i \in 1..Len(allowedPaths) :
        IF allowedPaths[i] = Root THEN path = Root ELSE HasPrefix(path, allowedPaths[i])

Answered(r) == req[r].pc = "done"

\* C1: on a path that is not allow-listed, a ServeHTTP call that answered
\* before SetReady was ever invoked answered 503, and a call that started after
\* SetReady was invoked never answers the readiness 503.
C1_NotReady503 ==
    \A r \in Reqs :
        (Answered(r) /\ ~OnAllowList(req[r].path)) =>
            /\ ~req[r].endReady => req[r].resp.status = 503
            /\ req[r].startReady => req[r].resp.body # NotReadyMsg

\* C1 witness: a handler is installed, SetReady was never invoked, and a
\* request to a path off the allow-list was answered (with the 503).
C1_Witness ==
    \E r \in Reqs :
        /\ Answered(r) /\ ~OnAllowList(req[r].path)
        /\ handler # NoHandler /\ setReadyCalls = 0
        /\ req[r].resp = serveUnavailable(NotReadyMsg)

\* C2: on an allow-listed path ServeHTTP answers with what a handler installed
\* during the call produces, or with the canned "starting up" 503 when none was
\* installed, whatever the readiness of the gate.
C2_AllowedPassThrough ==
    \A r \in Reqs :
        (Answered(r) /\ OnAllowList(req[r].path)) =>
            \E h \in req[r].seen :
                IF h = NoHandler
                THEN req[r].resp = serveUnavailable(StartingMsg)
                ELSE /\ req[r].resp.by = h
                     /\ h # "mux" => req[r].resp = HandlerResponse(h, req[r].path)

\* C2 witness: the gate is not ready and a request matched by prefix only
\* ("/setup/callback" under the entry "/setup") was served by the handler.
C2_Witness ==
    \E r \in Reqs :
        /\ Answered(r) /\ req[r].path = SetupCallback /\ OnAllowList(req[r].path)
        /\ ~ready /\ setReadyCalls = 0
        /\ req[r].resp.status = 200 /\ req[r].resp.by = req[r].h

\* C10: SetHandler never crashes, whenever and however often it is called, and
\* every ServeHTTP call dispatches to a handler that was installed at some
\* moment of the call.
C10_SetHandlerSafe ==
    /\ ~crashed
    /\ \A r \in Reqs :
           req[r].pc \in {"dispatch", "done"} /\ req[r].h # NoHandler
               => req[r].h \in req[r].seen

\* --------------------------------------------------- claims on the Reloader

\* Nothing is left to do: every started listener waits in its select (or has
\* exited) and no trigger or signal is buffered.
Quiescent ==
    /\ gpc[1] # "none"
    /\ \A l \in Listeners : gpc[l] \in {"none", "select", "exited"}
    /\ reloadCh = 0
    /\ \A l \in Listeners : sighupCh[l] = 0

\* C4: at no moment do two listeners execute the reload function.
C4_SingleFlight ==
    Cardinality({l \in Listeners : Executing(l)}) <= 1

\* C4 witness: one listener executes the reload function while another one
\* has entered doReload for a second request.
C4_Witness ==
    \E l, k \in Listeners : l # k /\ Executing(l) /\ gpc[k] = "doReload"

C7_Burst ==
    (trigCalls = BurstSize /\ sighups = 0 /\ burstDone = 0 /\ Quiescent) =>
        /\ execStarts \in 1..2
        /\ ~reloading

\* C7 witness: the burst ended in two executions.
C7_Witness ==
    /\ trigCalls = BurstSize /\ sighups = 0 /\ burstDone = 0 /\ Quiescent
    /\ execStarts = 2 /\ execDone = 2

\* ------------------------------------------------- claims on the process

\* Listener l takes a step of a doReload whose load function fails.
FailedReloadStep(l) ==
    /\ gpc' [l] # gpc[l]
    /\ \/ gpc[l] = "lc_build" /\ lres'[l] = "err"
       \/ gpc[l] = "deferred" /\ lres[l] = "err"

\* C3: once IsReady is true it stays true, whatever load attempt, reload or
\* handler replacement follows.
C3_ReadyMonotonic == [][IsReady => IsReady']_vars

\* C3 witness: the gate was ready already when a further reload succeeded and
\* replaced the handler.
C3_Witness ==
    ready /\ setReadyCalls >= 2 /\ lres[1] = "ok" /\ webhook = 2

\* C8: a reload whose load function fails leaves the installed handlers (the
\* gate's and the webhook wrapper's) and the readiness as they were.
C8_FailedReloadKeepsHandler ==
    [][(\E l \in Listeners : FailedReloadStep(l))
          => /\ webhook' = webhook
             /\ handler' = handler
             /\ ready' = ready]_vars

\* C8 witness: a reload has just failed while the gate is ready and serves an
\* app handler.
C8_Witness ==
    /\ gpc[1] = "deferred" /\ lres[1] = "err"
    /\ ready /\ webhook > 0 /\ handler = "mux"

Returned == waitErr # "none" /\ ~ctxDone

\* C11: with a load function that fails its first k-1 calls and succeeds at
\* the k-th, k <= cfg.MaxRetries, Wait returns nil and the load function was
\* called exactly k times.
C11_RetryThenSuccess ==
    (Returned /\ succeedAt <= cfgMaxRetries) =>
        (waitErr = "nil" /\ callCount = succeedAt)

C11_Witness ==
    /\ Returned
    /\ succeedAt = 3 /\ cfgMaxRetries > 3
    /\ waitErr = "nil" /\ callCount = 3

\* C12: with a load function that always fails, Wait calls it exactly
\* cfg.MaxRetries times and returns the error of the last call.
C12_MaxRetriesExceeded ==
    (Returned /\ succeedAt > cfgMaxRetries) =>
        /\ callCount = cfgMaxRetries
        /\ waitErr = "lastErr"
        /\ lastErr = callCount

C12_Witness ==
    /\ Returned
    /\ succeedAt > cfgMaxRetries
    /\ cfgMaxRetries = 3 /\ callCount = 3 /\ lastErr = 3

\* C13: when the context is cancelled before Wait is called, the load
\* function is never called and Wait returns nothing but ctx.Err().
C13_CancelledBeforeCall ==
    cancelledAt = <<"call", 1>> =>
        (callCount = 0 /\ waitErr \in {"none", "ctx.Err"})

\* C14: when the context is cancelled while Wait sleeps after its first
\* failed attempt, Wait returns ctx.Err() and the load function was called at
\* most twice.
C14_CancelDuringFirstSleep ==
    (cancelledAt = <<"w_sleep", 1>> /\ waitErr # "none") =>
        (waitErr = "ctx.Err" /\ callCount <= 2)

C14_Witness ==
    /\ cancelledAt = <<"w_sleep", 1>>
    /\ waitErr = "ctx.Err"
    /\ callCount = 1

\* -------------------------------------------------- claims on the Reloader

\* C20: once the Reloader's context is cancelled, every listener goroutine
\* that Start launched exits, and the channel that Start returned is closed.
C20_ListenerStops ==
    \A l \in Listeners :
        (ctxDone /\ gpc[l] # "none") ~> (gpc[l] = "exited" /\ done[l])

\* The listener has stopped after a reload ran and a cancellation followed.
C20_Witness ==
    /\ ctxDone
    /\ execDone > 0
    /\ gpc[1] = "exited" /\ done[1]

\* ------------------------------------------------------- claims on http-app

\* C19: every request to /healthz is answered by the handler main registered
\* for it, with 200 "ok" when the gate was ready as it answered and with 503
\* "not ready" when it was not.
C19_Healthz ==
    \A r \in Reqs :
        (Answered(r) /\ req[r].path = Healthz) =>
            /\ req[r].resp.by = "mux"
            /\ IF req[r].endReady
               THEN req[r].resp.status = 200 /\ req[r].resp.body = "ok"
               ELSE req[r].resp.status = 503 /\ req[r].resp.body = "not ready"

\* C19 witness: /healthz is not on every allow-list entry's prefix but on
\* the list itself; it answered 200 "ok" after a load succeeded.
C19_Witness ==
    \E r \in Reqs :
        /\ Answered(r) /\ req[r].path = Healthz
        /\ ready /\ ~installerEnabled
        /\ req[r].resp.status = 200 /\ req[r].resp.body = "ok"

\* C16: os.Exit(1) after a failed load is called by the initial load only,
\* when Wait used up its cfg.MaxRetries attempts (or was cancelled), and no
\* step of a failed reload ends the process.
C16_OnlyInitialLoadIsFatal ==
    /\ [](procExit =>
            /\ gpc[WaitTask] = "w_failed"
            /\ waitErr # "ctx.Err" =>
                   (waitErr = "lastErr" /\ attempt = cfgMaxRetries
                                       /\ lastErr = cfgMaxRetries))
    /\ [][(\E l \in Listeners : FailedReloadStep(l)) => procExit' = procExit]_vars

\* C16 witness: a reload failed and the process lived on, until the initial
\* load made its last attempt.
C16_Witness ==
    /\ procExit /\ waitErr = "lastErr" /\ ~ctxDone
    /\ gpc[1] = "deferred" /\ lres[1] = "err"

BusinessWithoutHandler ==
    lam.prog # "none" /\ lam.pc = "done" /\ IsBusiness(lam.path) /\ lam.hadInstance = 0

\* C17: no invocation panics and every answer is well formed, a 503 carrying
\* the Retry-After hint, whatever the installer-enabled, installer-handler
\* and loaded state of the function.
C17_AlwaysWellFormed ==
    lam.prog # "none" =>
        /\ ~lam.panicked
        /\ lam.pc = "done" =>
               /\ lam.resp.status \in {200, 404, 503}
               /\ lam.resp.status = 503 => lam.resp.retryAfter

\* C18: a business request that arrives while no handler is installed makes
\* the function call the load on the request path, and when that call
\* succeeds the same request is answered by the handler it installed.
C18_LoadsOnRequestPath ==
    BusinessWithoutHandler =>
        /\ lam.attempted
        /\ lam.loadOk => lam.resp = instanceResponse(lam.instance)

\* ------------------------------------------------- claims on Trigger

\* C21: a Trigger call can complete in every state (no listener started, a
\* reload executing, a request queued), and a call made while a request is
\* queued leaves the queue and the rest of the Reloader as they were.
C21_TriggerNonBlocking ==
    /\ []((Alive /\ trigCalls < MaxTriggers) => ENABLED Trigger)
    /\ [][(trigCalls' = trigCalls + 1 /\ reloadCh = ReloadChCap)
              => UNCHANGED reloaderVars]_vars

\* C21 witness: a call made while a reload executed queued a request, and a
\* further call found that request queued.
C21_Witness ==
    /\ markAt = 1 /\ trigCalls = 3 /\ execStarts = 1
    /\ reloadCh = ReloadChCap /\ \E l \in Listeners : Executing(l)

\* C22: a Trigger call made while a reload executes (nothing queued, and no
\* other trigger, signal or cancellation after it) causes no further
\* execution of the reload function.
C22_TriggerDuringReloadIsNoop ==
    (markAt # -1 /\ ~disturbed) => execStarts = markAt

\* C23: a TriggerReload call made while no global reloader is registered
\* changes nothing and does not panic; made while one is registered it does
\* to that Reloader what Trigger does.
C23_TriggerReload ==
    [][globalCalls' # globalCalls =>
          IF globalReloader = "nil"
          THEN UNCHANGED <<gateVars, reloaderVars, historyVars>>
          ELSE /\ reloadCh' = IF reloadCh < ReloadChCap THEN reloadCh + 1 ELSE reloadCh
               /\ trigCalls' = trigCalls + 1
               /\ UNCHANGED <<gateVars, reloadFunc, reloading, mu, sighupCh, ctxDone, gpc,
                              lres, startBudget, done>>]_vars

\* C23 witness: of three TriggerReload calls one was made with a reloader
\* registered, which ran the reload function once, and the reference has
\* been cleared again.
C23_Witness ==
    /\ globalCalls = 3 /\ trigCalls = 1 /\ sighups = 0
    /\ execDone = 1 /\ globalReloader = "nil" /\ ~crashed

\* ------------------------------------------------ claims on the reloads

\* C24: a reload that runs after credentials were saved builds its app from
\* the credentials last saved.
C24_ReloadSeesLatest ==
    [][\A l \in Listeners :
          (gpc[l] = "lc_build" /\ gpc'[l] = "lc_setHandler") => built'[l] = cfgVersion]_vars

\* ----------------------------------------------- claims on the resolver

\* A ResolveValue call has returned.
ResolveValueReturned == rv.fn = "ResolveValue" /\ rv.pc = "returned"

\* C25: ResolveValue returns a value that does not match the pattern as it
\* is, with a nil error, and GetParameter is not called.
C25_NonReferenceUnchanged ==
    (ResolveValueReturned /\ ~IsSSMARN(rv.arg)) =>
        /\ rv.out = rv.arg
        /\ rv.err = "nil"
        /\ getParameterCalls = <<>>

\* C25 witness: the call was made with a value that starts like a reference
\* and does not match.
C25_Witness ==
    ResolveValueReturned /\ rv.arg = ArnNoRegion /\ rv.out = ArnNoRegion

\* The references of the model and the parameter path each points at.
PointsAt == {<<ArnX, ParamX>>, <<ArnSlashX, ParamX>>, <<ArnY, ParamY>>}

\* C26: for a reference whose parameter holds a value in the store,
\* ResolveValue returns exactly that value and a nil error.
C26_ReferenceResolved ==
    \A ref \in PointsAt :
        (/\ ResolveValueReturned
         /\ rv.arg = ref[1]
         /\ ssmParams[ref[2]].hasValue) =>
            /\ rv.out = ssmParams[ref[2]].value
            /\ rv.err = "nil"

\* C26 witness: the reference without the leading slash resolved to the
\* secret held under /x.
C26_Witness ==
    /\ ResolveValueReturned /\ rv.arg = ArnX
    /\ ssmParams[ParamX] = Parameter(SecretValue) /\ rv.out = SecretValue
    /\ getParameterCalls = <<ParamX>>

\* A ResolveEnvironment call has returned.
ResolveEnvironmentReturned == rv.fn = "ResolveEnvironment" /\ rv.pc = "returned"

\* The entries of the environment, as ResolveEnvironment found it, whose
\* reference cannot be resolved, and the first of them (one past the end
\* if there is none).
Unresolvable ==
    {i \in 1..Len(rv.snapshot) :
        /\ IsSSMARN(rv.snapshot[i].value)
        /\ ~GetParameter(ExtractParameterName(rv.snapshot[i].value).name).hasValue}
FirstUnresolvable ==
    IF Unresolvable = {} THEN Len(rv.snapshot) + 1
    ELSE CHOOSE i \in Unresolvable : \A j \in Unresolvable : i <= j

\* C27: ResolveEnvironment returns nil exactly when every reference can be
\* resolved; every reference before the first failing one is replaced by its
\* resolved value, everything else is as it was, and GetParameter was called
\* for no entry after the first failing one.
C27_ResolveEnvironment ==
    ResolveEnvironmentReturned =>
        /\ (rv.err = "nil") = (Unresolvable = {})
        /\ Len(environ) = Len(rv.snapshot)
        /\ \A i \in 1..Len(rv.snapshot) :
              environ[i].value =
                  IF i < FirstUnresolvable /\ IsSSMARN(rv.snapshot[i].value)
                  THEN GetParameter(ExtractParameterName(rv.snapshot[i].value).name).value
                  ELSE rv.snapshot[i].value
        /\ Len(getParameterCalls) =
              Cardinality({i \in 1..Len(rv.snapshot) :
                              i <= FirstUnresolvable /\ IsSSMARN(rv.snapshot[i].value)})

\* C27 witness: the first entry was replaced, the second failed, and the
\* third, a reference that could be resolved, was left alone.
C27_Witness ==
    /\ ResolveEnvironmentReturned /\ rv.err # "nil"
    /\ Len(rv.snapshot) = 3 /\ FirstUnresolvable = 2
    /\ rv.snapshot[1].value = ArnX /\ environ[1].value = SecretValue
    /\ rv.snapshot[3].value = ArnSlashX /\ environ[3].value = ArnSlashX
    /\ Len(getParameterCalls) = 2

\* A value that starts like a reference and does not match the pattern.
Malformed(value) == HasPrefix(value, ArnPrefix) /\ ~IsSSMARN(value)

\* C28: ResolveValue returns an error for a malformed reference.
C28_MalformedIsError ==
    (ResolveValueReturned /\ Malformed(rv.arg)) => rv.err # "nil"

\* C29: ResolveEnvironmentWithRetry, given the attempt count, the attempt
\* outcomes and the cancellation time of a Wait call, makes as many attempts
\* as Wait did and returns what Wait returned (nil, the error of the same
\* attempt, or ctx.Err()).
C29_RetryLikeWait ==
    (waitErr # "none" /\ retry.pc = "returned") =>
        /\ retry.calls = callCount
        /\ retry.err = waitErr
        /\ retry.err = "lastErr" => retry.lastErr = lastErr

\* C29 witness: both were cancelled in the sleep after their second attempt.
C29_Witness ==
    /\ cancelledAt = <<"w_sleep", 2>> /\ waitErr = "ctx.Err" /\ callCount = 2
    /\ retry.pc = "returned" /\ retry.err = "ctx.Err" /\ retry.calls = 2

\* --------------------------------------- claims on the gate without handler

\* C30: a ServeHTTP call during which no handler was installed answers with
\* the canned 503 (JSON error service_unavailable, Retry-After), on every
\* path, allow-listed or not, and whether the gate is ready or not.
C30_NoHandler503 ==
    \A r \in Reqs :
        (Answered(r) /\ req[r].seen = {NoHandler}) =>
            /\ req[r].resp \in {serveUnavailable(StartingMsg), serveUnavailable(NotReadyMsg)}
            /\ req[r].resp.status = 503
            /\ req[r].resp.retryAfter

\* C30 witness: the gate was made ready without a handler, and a path off
\* the allow-list got the 503.
C30_Witness ==
    \E r \in Reqs :
        /\ Answered(r) /\ req[r].seen = {NoHandler}
        /\ ready /\ req[r].startReady /\ ~OnAllowList(req[r].path)
        /\ req[r].resp = serveUnavailable(StartingMsg)

\* ------------------------------------------------------- claims, continued

\* The fields of the ReadyGate.
gateState == <<ready, handler, inner, handlerReady, allowedPaths>>

\* C31: a SetReady call that is not the first one changes nothing: the gate's
\* fields stay as the first call left them (ready is true) and every request
\* path is answered as before the call.
C31_SetReadyIdempotent ==
    [][(setReadyCalls >= 1 /\ setReadyCalls' = setReadyCalls + 1) =>
          /\ ready /\ ready'
          /\ gateState' = gateState
          /\ \A path \in ReqPaths : ServeHTTPResult(path)' = ServeHTTPResult(path)]_vars

\* C31 witness: SetReady was called twice, a handler is installed, and a
\* request off the allow-list that started after a SetReady call was served
\* by the handler.
C31_Witness ==
    /\ setReadyCalls = 2 /\ ready
    /\ \E r \in Reqs :
          /\ Answered(r) /\ ~OnAllowList(req[r].path)
          /\ req[r].startReady
          /\ req[r].resp = ServeHTTPResult(req[r].path)
          /\ req[r].resp.status = 200

\* The value of the last header field of the native request whose name is k
\* when letter case is ignored.
LastValue(wire, k) ==
    LET at == {i \in 1..Len(wire) : ToLower(wire[i].key) = k}
    IN  wire[CHOOSE i \in at : \A j \in at : j <= i].value

\* C32: the keys of the neutral Request's headers are the lower-cased names
\* of the native request's header fields, and each holds the value of the last
\* field of that name.
C32_LowerCaseLastWins ==
    hdr.pc = "done" =>
        /\ DOMAIN hdr.headers = {ToLower(hdr.wire[i].key) : i \in 1..Len(hdr.wire)}
        /\ \A k \in DOMAIN hdr.headers : hdr.headers[k] = LastValue(hdr.wire, k)

C34_LockOnlyAroundFlag ==
    /\ [](\A l \in Listeners :
            /\ Executing(l) => mu = 0
            /\ (Alive /\ gpc[l] = "doReload") => ENABLED DoReloadLock(l))
    /\ [][\A l \in Listeners :
            (gpc[l] = "doReload" /\ reloading /\ gpc'[l] # gpc[l]) =>
                /\ gpc'[l] = "select"
                /\ execStarts' = execStarts
                /\ reloading'
                /\ \A k \in Listeners : k # l => gpc'[k] = gpc[k]]_vars

\* C34 witness: a Trigger call made while listener 1 executed the reload
\* function was taken by listener 2, whose doReload found the reload in
\* progress and returned: listener 2 waits in its select again while the
\* first and only execution still runs.
C34_Witness ==
    /\ markAt = 1 /\ ~disturbed /\ execStarts = 1 /\ execDone = 0
    /\ reloadCh = 0 /\ reloading /\ mu = 0
    /\ Executing(1) /\ gpc[2] = "select"

\* C35: once the context is cancelled, a listener that waits in its select
\* takes neither a signal nor a trigger (it can only exit), and no execution of
\* the reload function starts.
C35_NoReloadAfterCancel ==
    [][ctxDone =>
          /\ \A l \in Listeners :
                gpc[l] = "select" => gpc'[l] \in {"select", "exited"}
          /\ execStarts' = execStarts]_vars

\* Wait's call of the load function is executing on the initial-load task.
WaitExecuting == gpc[WaitTask] \in {"load", "lc_build", "lc_setHandler", "lc_setReady"}

\* C36: at no moment do the initial-load task (inside Wait) and a reload
\* listener (inside doReload) both execute the load function.
C36_InitialLoadExcludesReload ==
    ~(WaitExecuting /\ \E l \in Listeners : Executing(l))

\* C37: whenever the gate is ready the webhook wrapper holds an app, a
\* request to the business path that the gate has admitted finds it there, and
\* no answered request to that path carries the wrapper's "service not
\* configured" 503.
C37_ReadyImpliesInstalled ==
    /\ ready => webhook # 0
    /\ \A r \in Reqs :
          /\ (req[r].path = Webhook /\ req[r].pc \in {"getHandler", "dispatch"})
                => webhook # 0
          /\ (Answered(r) /\ req[r].path = Webhook)
                => req[r].resp.body # "service not configured"

\* C37 witness: a request to /webhook that started with the gate ready was
\* answered by the app while a reload was about to store a new one.
C37_Witness ==
    \E r \in Reqs :
        /\ Answered(r) /\ req[r].path = Webhook /\ req[r].startReady
        /\ req[r].resp.status = 200 /\ req[r].resp.by = "mux"
        /\ ready /\ gpc[1] = "lc_setHandler"

\* C38: when Wait has returned nil, the load function was called during the
\* call and one of its calls returned nil, whatever cfg.MaxRetries is.
C38_NilOnlyAfterSuccess ==
    waitErr = "nil" => (callCount >= 1 /\ callCount >= succeedAt)

\* C39: the installer callback calls TriggerReload only after Store.Save has
\* returned nil in the same request; a request whose code exchange or whose
\* Save failed has triggered no reload, and leaves the count of
\* TriggerReload calls and the reload channel as they were.
C39_TriggerOnlyAfterSave ==
    [][/\ (globalCalls' # globalCalls \/ trigCalls' # trigCalls)
            => (ins.handler = "handleCallback" /\ ins.saved = "ok")
       /\ (ins'.exchanged = "err" \/ ins'.saved = "err") => ~ins'.triggered]_vars

\* A first callback saved the credentials and triggered the reload; the Save
\* of a second one failed and it returned 500 without a second trigger.
C39_Witness ==
    /\ ins.handler = "handleCallback"
    /\ ins.saved = "err"
    /\ ins.status = 500
    /\ ~ins.triggered
    /\ globalCalls = 1
    /\ cfgVersion = 1

====
